---- MODULE Spec2Model ----
(***************************************************************************)
(* Media Foundation video encoder / decoder sessions                       *)
(* (ocean/media/mediafoundation/VideoEncoder, VideoDecoder).               *)
(*                                                                         *)
(* A session wraps one transform (IMFTransform).  The transform is a black *)
(* box: it keeps the units it has accepted and not yet handed out (buf)    *)
(* and answers every request of the session with one of the results the    *)
(* Media Foundation interface allows.  Every public method runs under the  *)
(* session's lock, so one method call is one step.                         *)
(***************************************************************************)
EXTENDS Integers, Sequences, FiniteSets, TLC

VARIABLES kind, ses, g, last, lock, thr, hist, io

vars == <<kind, ses, g, last, lock, thr, hist, io>>

\* the variables of the threads that share a session
threadVars == <<lock, thr, hist>>

(***************************************************************************)
(* Bounds of the model.                                                    *)
(***************************************************************************)
\* inputs the transforms accept over one run
MaxPush == 2
\* successful MFStartup calls over one run
MaxStartups == 1
\* candidates MFTEnumEx returns
MaxCandidates == 2
\* inputs the transforms accept over one run with two sessions
MaxMovePush == 0
\* inputs the transforms accept over one run of a session that is initialized repeatedly
MaxLifePush == 1
\* successful MFStartup calls over one run of a session that is initialized repeatedly
MaxLifeStartups == 2
\* successful MFStartup calls over one run with two sessions
MaxMoveStartups == 1

(***************************************************************************)
(* Program constants.                                                      *)
(***************************************************************************)
BUFFER_FLAG_NONE == 0
BUFFER_FLAG_KEY_FRAME == 1
BUFFER_FLAG_CODEC_CONFIG == 2
maximalWidth_ == 1920 * 8
maximalHeight_ == 1080 * 8
bitrateMbps2_ == 1000 * 1000 * 2
maximalBitrate_ == 1000 * 1000 * 10 * 10
\* Sample::presentationTime_ of a default constructed sample; stands for
\* NumericT<int64_t>::minValue(), which no presentation time of the model reaches
minValue == -1000000

\* dimensions, output size and data sizes the environment uses
FrameDim == 64
OtherDim == 32
OutSize == 4096
BlobLen == 8
PayloadLen == 16

(***************************************************************************)
(* Values.                                                                 *)
(***************************************************************************)
\* Sample(): empty data, presentationTime_ minValue, BUFFER_FLAG_NONE
InvalidSample == [size |-> 0, presentationTime |-> minValue, bufferFlags |-> BUFFER_FLAG_NONE]

\* Sample(data, presentationTime, bufferFlags)
Sample(size, presentationTime, bufferFlags) ==
    [size |-> size, presentationTime |-> presentationTime, bufferFlags |-> bufferFlags]

\* Sample::isValid
isValid(sample) == sample.size # 0

\* Sample::isKeyFrame
isKeyFrame(sample) == (sample.bufferFlags % 2) = 1

\* Sample::isConfiguration
isConfiguration(sample) == ((sample.bufferFlags \div 2) % 2) = 1

\* a session after construction (member initialisers of the class)
NewSession ==
    [alive |-> TRUE,
     transform_ |-> 0,
     width_ |-> 0,
     height_ |-> 0,
     isStarted_ |-> FALSE,
     mfStarted_ |-> FALSE,
     mftProvidesOutputSamples_ |-> FALSE,
     outputBufferSize_ |-> 0,
     codecConfigEmitted_ |-> FALSE,
     encodedSamples_ |-> <<>>,
     \* the transform behind transform_: the units it accepted and has not yet handed out
     buf |-> <<>>,
     \* history: since the last successful start() a key-frame sample was enqueued, and
     \* the number of codec-configuration samples enqueued
     epochKey |-> FALSE,
     epochConfigs |-> 0,
     \* history: initialize() returned true on this session and release() was not called since
     initOk |-> FALSE,
     \* history: as initOk, but handed over together with the transform by a move assignment
     owns |-> FALSE]

\* ScopedIMFTransform::isValid
transformValid(s) == s.transform_ # 0

\* bookkeeping outside the sessions: inputs accepted so far, MFStartup / MFShutdown calls
\* that succeeded, and per transform ever activated the number of times it was released
NewGlobal == [pts |-> 0, startups |-> 0, shutdowns |-> 0, rel |-> <<>>]

\* what the last call was and did: the method, the session, its state before the call
\* ("uninitialized", "initialized", "started"), the return value, the sample or frame
\* returned, the requests made to the transform, the inputs submitted to it with the
\* transform's answers, and the samples enqueued
NoCall ==
    [op |-> "none", sid |-> 0, pre |-> "uninitialized", ret |-> FALSE, out |-> InvalidSample,
     calls |-> <<>>, inputs |-> <<>>, enq |-> <<>>]

\* the running call: session, bookkeeping and what the call did so far
Call(s, gl) == [s |-> s, g |-> gl, ret |-> FALSE, out |-> InvalidSample,
                calls |-> <<>>, inputs |-> <<>>, enq |-> <<>>]

Return(c, ret) == [c EXCEPT !.ret = ret]

ReturnOut(c, out) == [c EXCEPT !.out = out, !.ret = out.size # 0]

requested(c, what) == [c EXCEPT !.calls = Append(@, what)]

(***************************************************************************)
(* The transform (IMFTransform) as the sessions use it.                    *)
(***************************************************************************)
\* IMFTransform::ProcessMessage: an accepted FLUSH discards the buffered units; a
\* rejected message is logged with the failure the transform answers
ProcessMessage(c, msg, ok) ==
    LET c1 == requested(c, msg)
    IN  IF ~ok THEN requested(c1, "E_FAIL")
        ELSE IF msg = "MFT_MESSAGE_COMMAND_FLUSH" THEN [c1 EXCEPT !.s.buf = <<>>]
        ELSE c1

\* a submission after which the session forgets the output size it was told
ProcessInput_resizing(c, sampleTime, res, key) ==
    LET c1 == [requested(c, "ProcessInput") EXCEPT
                 !.inputs = Append(@, [sampleTime |-> sampleTime, res |-> res])]
    IN  IF res = "S_OK"
          THEN [c1 EXCEPT !.s.buf = Append(@, [sampleTime |-> sampleTime, key |-> key]),
                          !.g.pts = @ + 1,
                          !.s.outputBufferSize_ = 0, !.s.mftProvidesOutputSamples_ = FALSE]
          ELSE c1

\* IMFTransform::ProcessInput: an accepted sample is buffered with its sample time;
\* key is the transform's decision to code it as a clean point
ProcessInput(c, sampleTime, res, key) ==
    LET c1 == [requested(c, "ProcessInput") EXCEPT
                 !.inputs = Append(@, [sampleTime |-> sampleTime, res |-> res])]
    IN  IF res = "S_OK"
          THEN [c1 EXCEPT !.s.buf = Append(@, [sampleTime |-> sampleTime, key |-> key]),
                          !.g.pts = @ + 1]
          ELSE c1

\* answers of ProcessInput the bound still allows
InputResults(gl, bound) ==
    IF gl.pts < bound THEN {"S_OK", "MF_E_NOTACCEPTING", "E_FAIL"}
                      ELSE {"MF_E_NOTACCEPTING", "E_FAIL"}

\* answers of GetOutputStreamInfo: failure, or the flags and size of the stream
StreamInfos ==
    {[ok |-> FALSE, provides |-> FALSE, cbSize |-> 0],
     [ok |-> TRUE, provides |-> TRUE, cbSize |-> OutSize]}

\* the session reads GetOutputStreamInfo into its two members
probeOutputStreamInfo(s, info) ==
    IF info.ok
      THEN [s EXCEPT !.mftProvidesOutputSamples_ = info.provides,
                     !.outputBufferSize_ = info.cbSize]
      ELSE s

\* mimeToVideoFormat
mimeToVideoFormat(mime) ==
    IF mime = "video/avc" \/ mime = "video/h264" THEN "MFVideoFormat_H264"
    ELSE IF mime = "video/hevc" \/ mime = "video/h265" THEN "MFVideoFormat_HEVC"
    ELSE "GUID_NULL"

(***************************************************************************)
(* VideoEncoder                                                            *)
(***************************************************************************)
\* arguments of VideoEncoder::initialize
EncoderArgs ==
    LET ok == [width |-> FrameDim, height |-> FrameDim, mime |-> "video/avc",
               frameRate |-> 30, bitrate |-> bitrateMbps2_]
    IN  {ok,
         [ok EXCEPT !.mime = "video/hevc"],
         [ok EXCEPT !.mime = "video/mp4v"],
         [ok EXCEPT !.mime = ""],
         [ok EXCEPT !.width = 0],
         [ok EXCEPT !.height = 0],
         [ok EXCEPT !.width = maximalWidth_ + 1],
         [ok EXCEPT !.height = maximalHeight_ + 1],
         [ok EXCEPT !.bitrate = 0],
         [ok EXCEPT !.bitrate = maximalBitrate_ + 1],
         [ok EXCEPT !.frameRate = 0]}

\* the parameter checks at the head of VideoEncoder::initialize
encoderArgsValid(a) ==
    /\ ~(a.width = 0 \/ a.height = 0 \/ a.width > maximalWidth_ \/ a.height > maximalHeight_)
    /\ ~(a.bitrate = 0 \/ a.bitrate > maximalBitrate_)
    /\ ~(a.frameRate <= 0)
    /\ ~(a.mime = "")

\* what one enumerated candidate does when the session tries it
CandidateResults ==
    {"activateFail", "createTypeFail", "fixedTypeFail", "oppositeTypeFail",
     "okPreferred", "okFallback"}

candidateAccepted(r) == r \in {"okPreferred", "okFallback"}

\* faulty variant of the candidate loop: it goes on after an accepted candidate
\* and keeps the last one that negotiates both ports
lastAccepted(cands, i) ==
    LET accepted == {k \in i .. Len(cands) : candidateAccepted(cands[k])}
    IN  IF accepted = {} THEN 0
        ELSE CHOOSE k \in accepted : \A j \in accepted : j <= k

\* the candidate loop: index of the first candidate that negotiates both ports, 0 if none
RECURSIVE firstAccepted(_, _)
firstAccepted(cands, i) ==
    IF i > Len(cands) THEN 0
    ELSE IF candidateAccepted(cands[i]) THEN i
    ELSE firstAccepted(cands, i + 1)

\* the lists MFTEnumEx can return
CandidateLists == UNION {[1..n -> CandidateResults] : n \in 0..MaxCandidates}

\* what the candidate loop makes of one list: activateCount and the index it accepts
enumResult(cands) == [activateCount |-> Len(cands), index |-> firstAccepted(cands, 1)]

EnumResults == {enumResult(cands) : cands \in CandidateLists}

\* the candidates the loop calls ActivateObject on, from candidate i on: each in
\* turn until one is accepted and the loop breaks
RECURSIVE activatedBy(_, _)
activatedBy(cands, i) ==
    IF i > Len(cands) THEN <<>>
    ELSE IF candidateAccepted(cands[i]) THEN <<i>>
    ELSE <<i>> \o activatedBy(cands, i + 1)

\* answers of the platform during initialize
InitAnswers(gl, bound) ==
    [startup : IF gl.startups < bound THEN BOOLEAN ELSE {FALSE},
     createType : BOOLEAN,
     enumOk : BOOLEAN,
     enum : EnumResults,
     info : StreamInfos]

\* faulty variant of initializeLocked: a session that holds a transform is initialized again
initializeLocked_overValidHandle(c, width, height, mime, e, isDecoder) ==
    IF ~e.startup THEN Return(c, FALSE)
    ELSE
      LET c1 == [c EXCEPT !.s.mfStarted_ = TRUE, !.g.startups = @ + 1]
          handle == Len(c.g.rel) + 1
      IN  IF mimeToVideoFormat(mime) = "GUID_NULL" THEN Return(c1, FALSE)
          ELSE IF ~e.enumOk \/ e.enum.activateCount = 0 THEN Return(c1, FALSE)
          ELSE IF isDecoder /\ ~e.createType THEN Return(c1, FALSE)
          ELSE IF e.enum.index = 0 THEN Return(c1, FALSE)
          ELSE
            LET s2 == [probeOutputStreamInfo(c1.s, e.info) EXCEPT
                         !.transform_ = handle, !.buf = <<>>,
                         !.width_ = width, !.height_ = height,
                         !.initOk = TRUE, !.owns = TRUE]
            IN  Return([c1 EXCEPT !.s = s2, !.g.rel = Append(@, 0)], TRUE)

\* the part of initialize both sessions share, from the lock to the return
initializeLocked(c, width, height, mime, e, isDecoder) ==
    IF transformValid(c.s) THEN Return(c, FALSE)
    ELSE IF ~e.startup THEN Return(c, FALSE)
    ELSE
      LET c1 == [c EXCEPT !.s.mfStarted_ = TRUE, !.g.startups = @ + 1]
          handle == Len(c.g.rel) + 1
      IN  IF mimeToVideoFormat(mime) = "GUID_NULL" THEN Return(c1, FALSE)
          ELSE IF ~e.enumOk \/ e.enum.activateCount = 0 THEN Return(c1, FALSE)
          ELSE IF isDecoder /\ ~e.createType THEN Return(c1, FALSE)
          ELSE IF e.enum.index = 0 THEN Return(c1, FALSE)
          ELSE
            LET s2 == [probeOutputStreamInfo(c1.s, e.info) EXCEPT
                         !.transform_ = handle, !.buf = <<>>,
                         !.width_ = width, !.height_ = height,
                         !.initOk = TRUE, !.owns = TRUE]
            IN  Return([c1 EXCEPT !.s = s2, !.g.rel = Append(@, 0)], TRUE)

\* VideoEncoder::initialize with arguments a and the answers e of the platform
VideoEncoder_initializeWith(c, a, e) ==
    IF ~encoderArgsValid(a) THEN Return(c, FALSE)
    ELSE initializeLocked(c, a.width, a.height, a.mime, e, FALSE)

\* VideoEncoder::initialize with arguments a, over all answers of the platform
VideoEncoder_initialize(c, a, bound) ==
    IF ~encoderArgsValid(a) THEN {Return(c, FALSE)}
    ELSE {initializeLocked(c, a.width, a.height, a.mime, e, FALSE) : e \in InitAnswers(c.g, bound)}

\* answers of the transform to the three messages of VideoEncoder::start
StartAnswers == [flush : BOOLEAN, begin : BOOLEAN, sos : BOOLEAN]

\* a successful start() opens a new epoch of the history
newEpoch(c) == [c EXCEPT !.s.isStarted_ = TRUE, !.s.epochKey = FALSE, !.s.epochConfigs = 0]

\* faulty variant of start: the check of the handle is missing
start_withoutValidCheck(c) ==
    IF c.s.isStarted_ THEN {Return(c, TRUE)}
    ELSE
      {LET c1 == ProcessMessage(c, "MFT_MESSAGE_COMMAND_FLUSH", e.flush)
           c2 == ProcessMessage(c1, "MFT_MESSAGE_NOTIFY_BEGIN_STREAMING", e.begin)
           c3 == ProcessMessage(c2, "MFT_MESSAGE_NOTIFY_START_OF_STREAM", e.sos)
       IN  IF ~e.begin THEN Return(c2, FALSE)
           ELSE IF ~e.sos THEN Return(c3, FALSE)
           ELSE Return(newEpoch(c3), TRUE) : e \in StartAnswers}

\* faulty variant of start: no early return for a session that is started already
start_withoutStartedCheck(c) ==
    IF ~transformValid(c.s) THEN {Return(c, FALSE)}
    ELSE
      {LET c1 == ProcessMessage(c, "MFT_MESSAGE_COMMAND_FLUSH", e.flush)
           c2 == ProcessMessage(c1, "MFT_MESSAGE_NOTIFY_BEGIN_STREAMING", e.begin)
           c3 == ProcessMessage(c2, "MFT_MESSAGE_NOTIFY_START_OF_STREAM", e.sos)
       IN  IF ~e.begin THEN Return(c2, FALSE)
           ELSE IF ~e.sos THEN Return(c3, FALSE)
           ELSE Return(newEpoch(c3), TRUE) : e \in StartAnswers}

\* VideoEncoder::start, over all answers of the transform
VideoEncoder_start(c) ==
    IF ~transformValid(c.s) THEN {Return(c, FALSE)}
    ELSE IF c.s.isStarted_ THEN {Return(c, TRUE)}
    ELSE
      {LET c1 == ProcessMessage(c, "MFT_MESSAGE_COMMAND_FLUSH", e.flush)
           c2 == ProcessMessage(c1, "MFT_MESSAGE_NOTIFY_BEGIN_STREAMING", e.begin)
           c3 == ProcessMessage(c2, "MFT_MESSAGE_NOTIFY_START_OF_STREAM", e.sos)
       IN  IF ~e.begin THEN Return(c2, FALSE)
           ELSE IF ~e.sos THEN Return(c3, FALSE)
           ELSE Return(newEpoch(c3), TRUE) : e \in StartAnswers}

\* encodedSamples_.push_back(sample)
push_back(c, sample) ==
    [c EXCEPT !.s.encodedSamples_ = Append(@, sample),
              !.s.epochKey = @ \/ (isKeyFrame(sample) /\ ~isConfiguration(sample)),
              !.s.epochConfigs = IF isConfiguration(sample) THEN @ + 1 ELSE @,
              !.enq = Append(@, sample)]

\* what reading the sequence header blob of the output type gives: no blob when one of
\* GetOutputCurrentType, GetBlobSize, GetBlob fails or GetBlobSize reports 0, else the
\* size GetBlob reports
NoBlob == [ok |-> FALSE, size |-> 0]

BlobResults == {NoBlob, [ok |-> TRUE, size |-> BlobLen]}

\* a loop body that never sets the key-frame flag
drainedSample_unflagged(c, blob, payload) ==
    LET u == Head(c.s.buf)
        c1 == [c EXCEPT !.s.buf = Tail(@)]
        c2 == IF u.key /\ ~c1.s.codecConfigEmitted_ /\ blob.ok
                THEN [push_back(c1, Sample(blob.size, u.sampleTime \div 10, BUFFER_FLAG_CODEC_CONFIG))
                        EXCEPT !.s.codecConfigEmitted_ = TRUE]
                ELSE c1
    IN  IF payload THEN push_back(c2, Sample(PayloadLen, u.sampleTime \div 10, BUFFER_FLAG_NONE))
                   ELSE c2

\* drainOutputSamples, the body of the loop after ProcessOutput returned S_OK with a
\* sample: the head unit of the transform leaves the transform; blob is the result of
\* reading the sequence header, payload whether the sample's buffer could be read
drainedSample(c, blob, payload) ==
    LET u == Head(c.s.buf)
        samplePresentationTime == u.sampleTime \div 10
        c1 == [c EXCEPT !.s.buf = Tail(@)]
        c2 == IF u.key /\ ~c1.s.codecConfigEmitted_ /\ blob.ok
                THEN [push_back(c1, Sample(blob.size, samplePresentationTime, BUFFER_FLAG_CODEC_CONFIG))
                        EXCEPT !.s.codecConfigEmitted_ = TRUE]
                ELSE c1
    IN  IF payload
          THEN push_back(c2, Sample(PayloadLen, samplePresentationTime,
                                    IF u.key THEN BUFFER_FLAG_KEY_FRAME ELSE BUFFER_FLAG_NONE))
          ELSE c2

\* the results of reading the blob that make a difference for the unit at the head
blobResultsFor(s) ==
    IF Head(s.buf).key /\ ~s.codecConfigEmitted_ THEN BlobResults ELSE {NoBlob}

\* the loop of VideoEncoder::drainOutputSamples: the set of its results over all
\* answers the transform and the platform can give.  After an accepted drain command
\* (drained) the transform hands out every buffered unit before it reports
\* need-more-input.  An iteration that leaves session and transform as they were (S_OK
\* without a sample; a stream change whose stream info is unreadable or unchanged)
\* continues with the very loop it came from and so adds no result
RECURSIVE drainLoop(_, _)
drainLoop(c, drained) ==
    \* MFCreateSample or MFCreateMemoryBuffer fails: break
    (IF ~c.s.mftProvidesOutputSamples_ THEN {c} ELSE {})
    \cup
    \* MF_E_TRANSFORM_NEED_MORE_INPUT: break
    (IF drained /\ c.s.buf # <<>> THEN {} ELSE {c})
    \cup
    \* any other failure of ProcessOutput: break
    {c}
    \cup
    \* MF_E_TRANSFORM_STREAM_CHANGE: new output type, stream info read again, continue
    UNION {IF probeOutputStreamInfo(c.s, info) = c.s THEN {}
           ELSE drainLoop([c EXCEPT !.s = probeOutputStreamInfo(@, info)], drained) :
             info \in StreamInfos}
    \cup
    \* S_OK with a sample: continue
    (IF c.s.buf # <<>>
       THEN UNION {drainLoop(drainedSample(c, blob, payload), drained) :
                     blob \in blobResultsFor(c.s), payload \in BOOLEAN}
       ELSE {})

\* VideoEncoder::drainOutputSamples
drainOutputSamples(c, drained) == drainLoop(requested(c, "drainOutputSamples"), drained)

\* answers of the transform to the drain command of stop (the answers to the two
\* notifications that follow change nothing)
StopAnswers == [drain : BOOLEAN]

\* faulty variant of stop: a rejected drain command fails the call
stop_failsOnRejectedDrain(c) ==
    IF ~transformValid(c.s) \/ ~c.s.isStarted_ THEN {Return(c, TRUE)}
    ELSE
      {Return(ProcessMessage(c, "MFT_MESSAGE_COMMAND_DRAIN", FALSE), FALSE)}
      \cup
      {Return([ProcessMessage(ProcessMessage(c2, "MFT_MESSAGE_NOTIFY_END_OF_STREAM", TRUE),
                              "MFT_MESSAGE_NOTIFY_END_STREAMING", TRUE)
                 EXCEPT !.s.isStarted_ = FALSE], TRUE) :
         c2 \in drainOutputSamples(ProcessMessage(c, "MFT_MESSAGE_COMMAND_DRAIN", TRUE), TRUE)}

\* faulty variant of stop: the two notifications are sent before the drain pass
stop_notifiesBeforeDrain(c) ==
    IF ~transformValid(c.s) \/ ~c.s.isStarted_ THEN {Return(c, TRUE)}
    ELSE
      UNION {{Return([c2 EXCEPT !.s.isStarted_ = FALSE], TRUE) :
                c2 \in drainOutputSamples(
                         ProcessMessage(ProcessMessage(
                           ProcessMessage(c, "MFT_MESSAGE_COMMAND_DRAIN", e.drain),
                           "MFT_MESSAGE_NOTIFY_END_OF_STREAM", TRUE),
                           "MFT_MESSAGE_NOTIFY_END_STREAMING", TRUE), e.drain)} :
               e \in StopAnswers}

\* VideoEncoder::stop, over all answers of the transform
VideoEncoder_stop(c) ==
    IF ~transformValid(c.s) \/ ~c.s.isStarted_ THEN {Return(c, TRUE)}
    ELSE
      UNION {{Return([ProcessMessage(ProcessMessage(c2, "MFT_MESSAGE_NOTIFY_END_OF_STREAM", TRUE),
                                     "MFT_MESSAGE_NOTIFY_END_STREAMING", TRUE)
                        EXCEPT !.s.isStarted_ = FALSE], TRUE) :
                c2 \in drainOutputSamples(ProcessMessage(c, "MFT_MESSAGE_COMMAND_DRAIN", e.drain), e.drain)} :
               e \in StopAnswers}

\* frames handed to pushFrame
Frames ==
    {[valid |-> FALSE, width |-> 0, height |-> 0],
     [valid |-> TRUE, width |-> FrameDim, height |-> FrameDim],
     [valid |-> TRUE, width |-> OtherDim, height |-> FrameDim],
     [valid |-> TRUE, width |-> FrameDim, height |-> OtherDim]}

\* what happens between the dimension check and ProcessInput in pushFrame: the step
\* that fails, or "ok"
PrepareResults == {"ok", "MFCreateMemoryBuffer", "Lock", "convertAndCopy", "MFCreateSample"}

\* the retry of pushFrame after the drain that follows MF_E_NOTACCEPTING
resubmitFrame(c, sampleTime, second, key) ==
    LET c3 == ProcessInput(c, sampleTime, second, key)
    IN  IF second # "S_OK" THEN {Return(c3, FALSE)}
        ELSE {Return(c4, TRUE) : c4 \in drainOutputSamples(c3, FALSE)}

\* faulty variant of submitFrame: MF_E_NOTACCEPTING fails the call like any other error
submitFrame_noRetry(c, sampleTime, first, key, bound) ==
    LET c1 == ProcessInput(c, sampleTime, first, key)
    IN  IF first # "S_OK" THEN {Return(c1, FALSE)}
        ELSE {Return(c2, TRUE) : c2 \in drainOutputSamples(c1, FALSE)}

\* VideoEncoder::pushFrame from ProcessInput on; first is the transform's answer to
\* the submission, key its decision to code the frame as a clean point
submitFrame(c, sampleTime, first, key, bound) ==
    LET c1 == ProcessInput(c, sampleTime, first, key)
    IN  IF first = "MF_E_NOTACCEPTING"
          THEN UNION {resubmitFrame(c2, sampleTime, second, key) :
                        c2 \in drainOutputSamples(c1, FALSE), second \in InputResults(c.g, bound)}
        ELSE IF first # "S_OK" THEN {Return(c1, FALSE)}
        ELSE {Return(c2, TRUE) : c2 \in drainOutputSamples(c1, FALSE)}

\* faulty variant of pushFrame: the check of isStarted_ is missing
pushFrame_uncheckedState(c, frame, presentationTime, bound) ==
    IF ~frame.valid THEN {Return(c, FALSE)}
    ELSE IF ~transformValid(c.s) THEN {Return(c, FALSE)}
    ELSE IF frame.width # c.s.width_ \/ frame.height # c.s.height_ THEN {Return(c, FALSE)}
    ELSE UNION {IF prepare # "ok" THEN {Return(c, FALSE)}
                ELSE UNION {submitFrame(c, presentationTime * 10, first, key, bound) :
                              first \in InputResults(c.g, bound), key \in BOOLEAN} :
                  prepare \in PrepareResults}

\* faulty variant of pushFrame: the check of the frame's dimensions is missing
pushFrame_anyDimensions(c, frame, presentationTime, bound) ==
    IF ~frame.valid THEN {Return(c, FALSE)}
    ELSE IF ~transformValid(c.s) THEN {Return(c, FALSE)}
    ELSE IF ~c.s.isStarted_ THEN {Return(c, FALSE)}
    ELSE UNION {IF prepare # "ok" THEN {Return(c, FALSE)}
                ELSE UNION {submitFrame(c, presentationTime * 10, first, key, bound) :
                              first \in InputResults(c.g, bound), key \in BOOLEAN} :
                  prepare \in PrepareResults}

\* VideoEncoder::pushFrame, over all answers of the platform and the transform
VideoEncoder_pushFrame(c, frame, presentationTime, bound) ==
    IF ~frame.valid THEN {Return(c, FALSE)}
    ELSE IF ~transformValid(c.s) THEN {Return(c, FALSE)}
    ELSE IF ~c.s.isStarted_ THEN {Return(c, FALSE)}
    ELSE IF frame.width # c.s.width_ \/ frame.height # c.s.height_ THEN {Return(c, FALSE)}
    ELSE UNION {IF prepare # "ok" THEN {Return(c, FALSE)}
                ELSE UNION {submitFrame(c, presentationTime * 10, first, key, bound) :
                              first \in InputResults(c.g, bound), key \in BOOLEAN} :
                  prepare \in PrepareResults}

\* faulty variant of popSample: the newest sample of the queue is returned
popSample_newestFirst(c) ==
    LET newest(q) == q[Len(q)]
        others(q) == SubSeq(q, 1, Len(q) - 1)
    IN  IF c.s.encodedSamples_ # <<>>
          THEN {ReturnOut([c EXCEPT !.s.encodedSamples_ = others(@)], newest(c.s.encodedSamples_))}
        ELSE IF ~transformValid(c.s) \/ ~c.s.isStarted_ THEN {ReturnOut(c, InvalidSample)}
        ELSE
          {IF c1.s.encodedSamples_ # <<>>
             THEN ReturnOut([c1 EXCEPT !.s.encodedSamples_ = others(@)], newest(c1.s.encodedSamples_))
             ELSE ReturnOut(c1, InvalidSample) :
               c1 \in drainOutputSamples(c, FALSE)}

\* VideoEncoder::popSample, over all answers of the transform
VideoEncoder_popSample(c) ==
    IF c.s.encodedSamples_ # <<>>
      THEN {ReturnOut([c EXCEPT !.s.encodedSamples_ = Tail(@)], Head(c.s.encodedSamples_))}
    ELSE IF ~transformValid(c.s) \/ ~c.s.isStarted_ THEN {ReturnOut(c, InvalidSample)}
    ELSE
      {IF c1.s.encodedSamples_ # <<>>
         THEN ReturnOut([c1 EXCEPT !.s.encodedSamples_ = Tail(@)], Head(c1.s.encodedSamples_))
         ELSE ReturnOut(c1, InvalidSample) :
           c1 \in drainOutputSamples(c, FALSE)}

\* ScopedIMFTransform::release: the reference to the transform is given up
transformRelease(c) ==
    [c EXCEPT !.g.rel[c.s.transform_] = @ + 1,
              !.s.transform_ = 0, !.s.buf = <<>>]

\* the end of release both sessions share: members back to their defaults, MFShutdown
releaseMembers(c) ==
    LET c1 == [c EXCEPT !.s.width_ = 0, !.s.height_ = 0,
                        !.s.mftProvidesOutputSamples_ = FALSE,
                        !.s.outputBufferSize_ = 0,
                        !.s.initOk = FALSE, !.s.owns = FALSE,
                        !.s.epochKey = FALSE, !.s.epochConfigs = 0]
    IN  IF c1.s.mfStarted_
          THEN [c1 EXCEPT !.s.mfStarted_ = FALSE, !.g.shutdowns = @ + 1]
          ELSE c1

\* faulty variant of release: the transform is stopped but its reference is kept
release_leaksHandle(c) ==
    {releaseMembers([c2 EXCEPT !.s.encodedSamples_ = <<>>, !.s.codecConfigEmitted_ = FALSE,
                               !.s.transform_ = 0, !.s.buf = <<>>]) :
       c2 \in IF transformValid(c.s) /\ c.s.isStarted_ THEN VideoEncoder_stop(c) ELSE {c}}

\* faulty variant of release: the queue of encoded samples is not cleared
release_keepsQueue(c) ==
    {releaseMembers([c2 EXCEPT !.s.codecConfigEmitted_ = FALSE]) :
       c2 \in IF transformValid(c.s)
                THEN {transformRelease(c1) :
                        c1 \in IF c.s.isStarted_ THEN VideoEncoder_stop(c) ELSE {c}}
                ELSE {c}}

\* VideoEncoder::release, over all answers of the transform
VideoEncoder_release(c) ==
    {releaseMembers([c2 EXCEPT !.s.encodedSamples_ = <<>>, !.s.codecConfigEmitted_ = FALSE]) :
       c2 \in IF transformValid(c.s)
                THEN {transformRelease(c1) :
                        c1 \in IF c.s.isStarted_ THEN VideoEncoder_stop(c) ELSE {c}}
                ELSE {c}}

(***************************************************************************)
(* VideoDecoder                                                            *)
(***************************************************************************)
\* arguments of VideoDecoder::initialize (the optional codec configuration data is
\* copied into the input type and changes nothing in the session)
DecoderArgs ==
    LET ok == [width |-> FrameDim, height |-> FrameDim, mime |-> "video/avc"]
    IN  {ok,
         [ok EXCEPT !.mime = "video/hevc"],
         [ok EXCEPT !.mime = "video/mp4v"],
         [ok EXCEPT !.mime = ""],
         [ok EXCEPT !.width = 0],
         [ok EXCEPT !.height = 0]}

\* dimensions above what VideoEncoder::initialize takes
LargeDecoderArgs ==
    {[width |-> maximalWidth_ + 1, height |-> FrameDim, mime |-> "video/avc"],
     [width |-> FrameDim, height |-> maximalHeight_ + 1, mime |-> "video/avc"]}

\* the parameter check at the head of VideoDecoder::initialize
decoderArgsValid(a) == ~(a.mime = "" \/ a.width = 0 \/ a.height = 0)

\* VideoDecoder::initialize with arguments a and the answers e of the platform
VideoDecoder_initializeWith(c, a, e) ==
    IF ~decoderArgsValid(a) THEN Return(c, FALSE)
    ELSE initializeLocked(c, a.width, a.height, a.mime, e, TRUE)

\* VideoDecoder::initialize with arguments a, over all answers of the platform
VideoDecoder_initialize(c, a, bound) ==
    IF ~decoderArgsValid(a) THEN {Return(c, FALSE)}
    ELSE {initializeLocked(c, a.width, a.height, a.mime, e, TRUE) : e \in InitAnswers(c.g, bound)}

\* faulty variant of start: a rejected start-of-stream notification is ignored
start_ignoresRejectedStartOfStream(c) ==
    IF ~transformValid(c.s) THEN {Return(c, FALSE)}
    ELSE IF c.s.isStarted_ THEN {Return(c, TRUE)}
    ELSE
      {LET c2 == ProcessMessage(c, "MFT_MESSAGE_NOTIFY_BEGIN_STREAMING", e.begin)
           c3 == ProcessMessage(c2, "MFT_MESSAGE_NOTIFY_START_OF_STREAM", e.sos)
       IN  IF ~e.begin THEN Return(c2, FALSE)
           ELSE Return(newEpoch(c3), TRUE) : e \in StartAnswers}

\* VideoDecoder::start, over all answers of the transform
VideoDecoder_start(c) ==
    IF ~transformValid(c.s) THEN {Return(c, FALSE)}
    ELSE IF c.s.isStarted_ THEN {Return(c, TRUE)}
    ELSE
      {LET c2 == ProcessMessage(c, "MFT_MESSAGE_NOTIFY_BEGIN_STREAMING", e.begin)
           c3 == ProcessMessage(c2, "MFT_MESSAGE_NOTIFY_START_OF_STREAM", e.sos)
       IN  IF ~e.begin THEN Return(c2, FALSE)
           ELSE IF ~e.sos THEN Return(c3, FALSE)
           ELSE Return(newEpoch(c3), TRUE) : e \in StartAnswers}

\* VideoDecoder::stop (the transform's answers to the three messages change nothing)
VideoDecoder_stop(c) ==
    IF ~transformValid(c.s) \/ ~c.s.isStarted_ THEN {Return(c, TRUE)}
    ELSE
      LET c1 == ProcessMessage(c, "MFT_MESSAGE_COMMAND_DRAIN", TRUE)
          c2 == ProcessMessage(c1, "MFT_MESSAGE_NOTIFY_END_OF_STREAM", TRUE)
          c3 == ProcessMessage(c2, "MFT_MESSAGE_NOTIFY_END_STREAMING", TRUE)
      IN  {Return([c3 EXCEPT !.s.isStarted_ = FALSE], TRUE)}

\* samples handed to pushSample: data pointer and size
InputSamples ==
    {[data |-> TRUE, size |-> PayloadLen],
     [data |-> TRUE, size |-> 0],
     [data |-> FALSE, size |-> PayloadLen]}

\* what happens between the state checks and ProcessInput in pushSample
PrepareSampleResults == {"ok", "MFCreateMemoryBuffer", "Lock", "MFCreateSample"}

\* faulty variant of pushSample: MF_E_NOTACCEPTING is answered with a second submission
pushSample_retries(c, sample, presentationTime, bound) ==
    IF ~sample.data \/ sample.size = 0 THEN {Return(c, FALSE)}
    ELSE IF ~transformValid(c.s) THEN {Return(c, FALSE)}
    ELSE IF ~c.s.isStarted_ THEN {Return(c, FALSE)}
    ELSE UNION {IF prepare # "ok" THEN {Return(c, FALSE)}
                ELSE UNION {LET c1 == ProcessInput(c, presentationTime * 10, res, FALSE)
                            IN  IF res = "MF_E_NOTACCEPTING"
                                  THEN {Return(ProcessInput(c1, presentationTime * 10, second, FALSE),
                                               second = "S_OK") :
                                          second \in InputResults(c.g, bound)}
                                ELSE IF res # "S_OK" THEN {Return(c1, FALSE)}
                                ELSE {Return(c1, TRUE)} : res \in InputResults(c.g, bound)} :
                  prepare \in PrepareSampleResults}

\* VideoDecoder::pushSample, over all answers of the platform and the transform
VideoDecoder_pushSample(c, sample, presentationTime, bound) ==
    IF ~sample.data \/ sample.size = 0 THEN {Return(c, FALSE)}
    ELSE IF ~transformValid(c.s) THEN {Return(c, FALSE)}
    ELSE IF ~c.s.isStarted_ THEN {Return(c, FALSE)}
    ELSE UNION {IF prepare # "ok" THEN {Return(c, FALSE)}
                ELSE {LET c1 == ProcessInput(c, presentationTime * 10, res, FALSE)
                      IN  IF res = "MF_E_NOTACCEPTING" THEN Return(c1, FALSE)
                          ELSE IF res # "S_OK" THEN Return(c1, FALSE)
                          ELSE Return(c1, TRUE) : res \in InputResults(c.g, bound)} :
                  prepare \in PrepareSampleResults}

\* the frame popFrame returns together with *presentationTime; a frame has its
\* presentation time and no buffer flags
ReturnFrame(c, valid, presentationTime) ==
    [c EXCEPT !.out = Sample(IF valid THEN (FrameDim * FrameDim * 3) \div 2 ELSE 0,
                             presentationTime, BUFFER_FLAG_NONE),
              !.ret = valid]

\* faulty variant of bufferSize: the bigger of the declared and the computed size
bufferSize_bigger(outputBufferSize, width, height) ==
    IF outputBufferSize > (width * height * 3) \div 2 THEN outputBufferSize
    ELSE (width * height * 3) \div 2

\* faulty variant of popFrame: a stream change ends the streaming of the session
popFrame_stopsOnStreamChange(c, a) ==
    IF ~transformValid(c.s) THEN ReturnFrame(c, FALSE, 0)
    ELSE IF a.result = "MF_E_TRANSFORM_STREAM_CHANGE"
      THEN ReturnFrame([requested(c, "ProcessOutput") EXCEPT
                          !.s = [probeOutputStreamInfo(@, a.info) EXCEPT !.isStarted_ = FALSE]],
                       FALSE, 0)
    ELSE ReturnFrame(requested(c, "ProcessOutput"), FALSE, 0)

\* the size of the buffer popFrame supplies when the transform provides none: the
\* declared size, and the size of a 4:2:0 frame of width_ x height_ if none is
\* declared (the products of the dimensions used here stay below 2^31)
bufferSize(outputBufferSize, width, height) ==
    IF outputBufferSize = 0 THEN (width * height * 3) \div 2 ELSE outputBufferSize

\* what the platform and the transform answer during one popFrame: the creation
\* of the caller-provided sample and buffer, the result of ProcessOutput, after
\* a stream change whether an NV12 type is available (nv12s) and the stream info
\* (infos), and after a success with a sample whether the buffer can be read
PopAnswers(s, infos, nv12s) ==
    LET needInput == [create |-> "ok", result |-> "MF_E_TRANSFORM_NEED_MORE_INPUT",
                      nv12 |-> FALSE, info |-> [ok |-> FALSE, provides |-> FALSE, cbSize |-> 0],
                      frameOk |-> FALSE]
    IN  {[needInput EXCEPT !.create = x] :
           x \in IF s.mftProvidesOutputSamples_ THEN {}
                  ELSE {"MFCreateSample", "MFCreateMemoryBuffer"}}
        \cup {[needInput EXCEPT !.result = r] :
                r \in {"MF_E_TRANSFORM_NEED_MORE_INPUT", "E_FAIL", "S_OK"}}
        \cup {[needInput EXCEPT !.result = "MF_E_TRANSFORM_STREAM_CHANGE", !.nv12 = n, !.info = info] :
                n \in nv12s, info \in infos}
        \cup (IF s.buf # <<>> THEN {[needInput EXCEPT !.result = "S_OK", !.frameOk = TRUE]}
                               ELSE {})

\* VideoDecoder::popFrame with the answers a of the platform and the transform
VideoDecoder_popFrameWith(c, a) ==
    IF ~transformValid(c.s) THEN ReturnFrame(c, FALSE, 0)
    ELSE IF ~c.s.mftProvidesOutputSamples_ /\ a.create # "ok" THEN ReturnFrame(c, FALSE, 0)
    ELSE
      LET c0 == requested(c, "ProcessOutput")
      IN  IF a.result = "MF_E_TRANSFORM_NEED_MORE_INPUT" THEN ReturnFrame(c0, FALSE, 0)
          ELSE IF a.result = "MF_E_TRANSFORM_STREAM_CHANGE"
            THEN LET c1 == IF a.nv12 THEN requested(c0, "SetOutputType") ELSE c0
                     c2 == requested(c1, "GetOutputStreamInfo")
                 IN  ReturnFrame([c2 EXCEPT !.s = probeOutputStreamInfo(@, a.info)], FALSE, 0)
          ELSE IF a.result # "S_OK" THEN ReturnFrame(c0, FALSE, 0)
          \* S_OK: the transform hands out its oldest unit, if it has one
          ELSE IF c.s.buf = <<>> THEN ReturnFrame(c0, FALSE, 0)
          ELSE ReturnFrame([c0 EXCEPT !.s.buf = Tail(@)],
                           a.frameOk, Head(c.s.buf).sampleTime \div 10)

\* VideoDecoder::popFrame: the set of results over all answers of the transform and the
\* platform to the one ProcessOutput call, with a transform that offers NV12
VideoDecoder_popFrame(c) ==
    {VideoDecoder_popFrameWith(c, a) : a \in PopAnswers(c.s, StreamInfos, {TRUE})}

\* VideoDecoder::drain, over the answers of the transform
VideoDecoder_drain(c) ==
    IF ~transformValid(c.s) THEN {Return(c, FALSE)}
    ELSE {Return(ProcessMessage(c, "MFT_MESSAGE_COMMAND_DRAIN", ok), ok) : ok \in BOOLEAN}

\* VideoDecoder::release
VideoDecoder_release(c) ==
    {releaseMembers(c2) :
       c2 \in IF transformValid(c.s)
                THEN {transformRelease(c1) :
                        c1 \in IF c.s.isStarted_ THEN VideoDecoder_stop(c) ELSE {c}}
                ELSE {c}}

\* faulty variant of movedInto: the started flag is not taken over
movedInto_stopped(this, other) ==
    [this EXCEPT !.transform_ = other.transform_,
                 !.buf = other.buf,
                 !.encodedSamples_ = other.encodedSamples_,
                 !.epochKey = other.epochKey,
                 !.epochConfigs = other.epochConfigs,
                 !.width_ = other.width_,
                 !.height_ = other.height_,
                 !.isStarted_ = FALSE,
                 !.mfStarted_ = other.mfStarted_,
                 !.mftProvidesOutputSamples_ = other.mftProvidesOutputSamples_,
                 !.outputBufferSize_ = other.outputBufferSize_,
                 !.codecConfigEmitted_ = other.codecConfigEmitted_,
                 !.owns = other.owns]

\* the members operator=(VideoEncoder&&) / operator=(VideoDecoder&&) take over from the
\* other session, after this session's release()
movedInto(this, other) ==
    [this EXCEPT !.transform_ = other.transform_,
                 !.buf = other.buf,
                 !.encodedSamples_ = other.encodedSamples_,
                 !.epochKey = other.epochKey,
                 !.epochConfigs = other.epochConfigs,
                 !.width_ = other.width_,
                 !.height_ = other.height_,
                 !.isStarted_ = other.isStarted_,
                 !.mfStarted_ = other.mfStarted_,
                 !.mftProvidesOutputSamples_ = other.mftProvidesOutputSamples_,
                 !.outputBufferSize_ = other.outputBufferSize_,
                 !.codecConfigEmitted_ = other.codecConfigEmitted_,
                 !.owns = other.owns]

\* faulty variant of movedFrom: the transform is copied, not moved
movedFrom_keepsHandle(other) ==
    [other EXCEPT !.encodedSamples_ = <<>>,
                  !.epochKey = FALSE,
                  !.epochConfigs = 0,
                  !.width_ = 0,
                  !.height_ = 0,
                  !.isStarted_ = FALSE,
                  !.mfStarted_ = FALSE,
                  !.mftProvidesOutputSamples_ = FALSE,
                  !.outputBufferSize_ = 0,
                  !.codecConfigEmitted_ = FALSE,
                  !.owns = FALSE]

\* the members operator= leaves in the session moved from
movedFrom(other) ==
    [other EXCEPT !.transform_ = 0,
                  !.buf = <<>>,
                  !.encodedSamples_ = <<>>,
                  !.epochKey = FALSE,
                  !.epochConfigs = 0,
                  !.width_ = 0,
                  !.height_ = 0,
                  !.isStarted_ = FALSE,
                  !.mfStarted_ = FALSE,
                  !.mftProvidesOutputSamples_ = FALSE,
                  !.outputBufferSize_ = 0,
                  !.codecConfigEmitted_ = FALSE,
                  !.owns = FALSE]

(***************************************************************************)
(* The calls as steps.                                                     *)
(***************************************************************************)
Encoder == kind = "encoder"

\* the state of a session as its caller sees it
stateOf(s) ==
    IF ~transformValid(s) THEN "uninitialized"
    ELSE IF s.isStarted_ THEN "started"
    ELSE "initialized"

\* the call on session i returned with c: the session and the bookkeeping take the
\* call's result, last describes the call
Returned(op, i, c) ==
    /\ ses' = [ses EXCEPT ![i] = c.s]
    /\ g' = c.g
    /\ last' = [op |-> op, sid |-> i, pre |-> stateOf(ses[i]), ret |-> c.ret, out |-> c.out,
                calls |-> c.calls, inputs |-> c.inputs, enq |-> c.enq]
    /\ UNCHANGED <<kind, threadVars, io>>

Initialize(i, bound) ==
    /\ ses[i].alive
    /\ \E c \in IF Encoder
                  THEN UNION {VideoEncoder_initialize(Call(ses[i], g), a, bound) : a \in EncoderArgs}
                  ELSE UNION {VideoDecoder_initialize(Call(ses[i], g), a, bound) : a \in DecoderArgs} :
         Returned("initialize", i, c)

Start(i) ==
    /\ ses[i].alive
    /\ \E c \in IF Encoder THEN VideoEncoder_start(Call(ses[i], g))
                           ELSE VideoDecoder_start(Call(ses[i], g)) :
         Returned("start", i, c)

Stop(i) ==
    /\ ses[i].alive
    /\ \E c \in IF Encoder THEN VideoEncoder_stop(Call(ses[i], g))
                           ELSE VideoDecoder_stop(Call(ses[i], g)) :
         Returned("stop", i, c)

\* the presentation time of the next input: inputs are numbered in the order the
\* transforms accept them
nextPresentationTime == g.pts + 1

Push(i, bound) ==
    /\ ses[i].alive
    /\ \E c \in IF Encoder
                  THEN UNION {VideoEncoder_pushFrame(Call(ses[i], g), frame, nextPresentationTime, bound) :
                                frame \in Frames}
                  ELSE UNION {VideoDecoder_pushSample(Call(ses[i], g), sample, nextPresentationTime, bound) :
                                sample \in InputSamples} :
         Returned("push", i, c)

Pop(i) ==
    /\ ses[i].alive
    /\ \E c \in IF Encoder THEN VideoEncoder_popSample(Call(ses[i], g))
                           ELSE VideoDecoder_popFrame(Call(ses[i], g)) :
         Returned("pop", i, c)

Drain(i) ==
    /\ ses[i].alive
    /\ ~Encoder
    /\ \E c \in VideoDecoder_drain(Call(ses[i], g)) :
         Returned("drain", i, c)

\* release() of session i
released(i) ==
    IF Encoder THEN VideoEncoder_release(Call(ses[i], g))
               ELSE VideoDecoder_release(Call(ses[i], g))

Release(i) ==
    /\ ses[i].alive
    /\ \E c \in released(i) :
         Returned("release", i, c)

\* ~VideoEncoder / ~VideoDecoder: release(), then the object is gone
Destroy(i) ==
    /\ ses[i].alive
    /\ \E c \in released(i) :
         Returned("destroy", i, [c EXCEPT !.s.alive = FALSE])

\* ses[i] = std::move(ses[j])
MoveAssign(i, j) ==
    /\ ses[i].alive
    /\ ses[j].alive
    /\ IF i = j
         THEN Returned("move", i, Return(Call(ses[i], g), TRUE))
         ELSE \E c \in released(i) :
                /\ ses' = [ses EXCEPT ![i] = movedInto(c.s, ses[j]), ![j] = movedFrom(ses[j])]
                /\ g' = c.g
                /\ last' = [op |-> "move", sid |-> i, pre |-> stateOf(ses[i]), ret |-> TRUE,
                            out |-> InvalidSample, calls |-> c.calls, inputs |-> c.inputs,
                            enq |-> c.enq]
                /\ UNCHANGED <<kind, threadVars, io>>

(***************************************************************************)
(* Bitstream formats.  A buffer is the pointer a caller passes (null or    *)
(* not) with the bytes behind it; offsets count from 0 as in the code.     *)
(***************************************************************************)
Buffer(data) == [null |-> FALSE, data |-> data]

NullBuffer == [null |-> TRUE, data |-> <<>>]

startCode == <<0, 0, 0, 1>>

\* the uint32_t read big-endian from data[offset] .. data[offset + 3]
bigEndian32(data, offset) ==
    data[offset + 1] * 16777216 + data[offset + 2] * 65536 + data[offset + 3] * 256 + data[offset + 4]

\* VideoDecoder::isAvcc
isAvcc_startCodesOnly(b, size, isCodecConfig) ==
    /\ ~b.null
    /\ size >= 4
    /\ ~(b.data[1] = 0 /\ b.data[2] = 0 /\ b.data[3] = 0 /\ b.data[4] = 1)
    /\ ~(b.data[1] = 0 /\ b.data[2] = 0 /\ b.data[3] = 1)

isAvcc_everyLength(b, size, isCodecConfig) ==
    /\ ~b.null
    /\ size >= 4
    /\ ~(b.data[1] = 0 /\ b.data[2] = 0 /\ b.data[3] = 0 /\ b.data[4] = 1)

isAvcc(b, size, isCodecConfig) ==
    IF b.null \/ size < 4 THEN FALSE
    ELSE LET byteData == b.data
         IN  IF isCodecConfig
               THEN IF byteData[1] = 0 /\ byteData[2] = 0 /\ byteData[3] = 0 /\ byteData[4] = 1
                      THEN FALSE
                    ELSE IF byteData[1] = 0 /\ byteData[2] = 0 /\ byteData[3] = 1
                      THEN FALSE
                    ELSE TRUE
             ELSE IF byteData[1] = 0 /\ byteData[2] = 0 /\ byteData[3] = 0 /\ byteData[4] = 1
               THEN FALSE
             ELSE IF byteData[1] = 0 /\ byteData[2] = 0 /\ byteData[3] = 1
               THEN LET possibleLength == bigEndian32(byteData, 0)
                    IN  possibleLength > 0 /\ possibleLength <= size - 4
             ELSE TRUE

\* the loop copying what is left of the buffer for a length that does not fit
RECURSIVE convertUnits_truncatesOverlong(_, _, _, _)
convertUnits_truncatesOverlong(data, avccSize, offset, annexBData) ==
    IF offset + 4 <= avccSize
      THEN LET nalLength == bigEndian32(data, offset)
               payload == offset + 4
           IN  IF nalLength = 0
                 THEN annexBData
               ELSE IF payload + nalLength > avccSize
                 THEN annexBData \o startCode \o SubSeq(data, payload + 1, avccSize)
               ELSE convertUnits_truncatesOverlong(data, avccSize, payload + nalLength,
                                   annexBData \o startCode \o SubSeq(data, payload + 1, payload + nalLength))
      ELSE annexBData

\* the while loop of VideoDecoder::convertAvccToAnnexB for a sample: every unit
\* whose length field is positive and fits is copied behind a start code
RECURSIVE convertUnits(_, _, _, _)
convertUnits(data, avccSize, offset, annexBData) ==
    IF offset + 4 <= avccSize
      THEN LET nalLength == bigEndian32(data, offset)
               payload == offset + 4
           IN  IF nalLength = 0 \/ payload + nalLength > avccSize
                 THEN annexBData
                 ELSE convertUnits(data, avccSize, payload + nalLength,
                                   annexBData \o startCode \o SubSeq(data, payload + 1, payload + nalLength))
      ELSE annexBData

\* the same loop writing a 3-byte start code
convertAvccToAnnexB_dropsFirstByte(b, avccSize) ==
    IF b.null \/ avccSize < 4
      THEN [ret |-> FALSE, annexBData |-> <<>>]
      ELSE LET annexBData == convertUnits(b.data, avccSize, 0, <<>>)
           IN  [ret |-> annexBData # <<>>,
                annexBData |-> IF annexBData = <<>> THEN <<>> ELSE Tail(annexBData)]

\* VideoDecoder::convertAvccToAnnexB with isCodecConfig = false, on an empty
\* annexBData
convertAvccToAnnexB(b, avccSize) ==
    IF b.null \/ avccSize < 4
      THEN [ret |-> FALSE, annexBData |-> <<>>]
      ELSE LET annexBData == convertUnits(b.data, avccSize, 0, <<>>)
           IN  [ret |-> annexBData # <<>>, annexBData |-> annexBData]

\* the loop over the records of one array of a configuration record, each a
\* 2-byte big-endian length and that many bytes: the records from number idx on
\* are copied behind start codes until count are done, the bytes run out, or a
\* length does not fit (break)
RECURSIVE convertRecords(_, _, _, _, _, _)
convertRecords(data, avccSize, offset, idx, count, annexBData) ==
    IF idx < count /\ offset + 2 <= avccSize
      THEN LET naluLength == data[offset + 1] * 256 + data[offset + 2]
               payload == offset + 2
           IN  IF payload + naluLength > avccSize
                 THEN [offset |-> payload, annexBData |-> annexBData, broke |-> TRUE]
                 ELSE convertRecords(data, avccSize, payload + naluLength, idx + 1, count,
                                     annexBData \o startCode
                                       \o SubSeq(data, payload + 1, payload + naluLength))
      ELSE [offset |-> offset, annexBData |-> annexBData, broke |-> FALSE]

\* the loop over the arrays of an HEVC configuration record; stopping is whether a
\* length that does not fit ends this loop too (in the code it does not)
RECURSIVE convertArrays(_, _, _, _, _, _, _)
convertArrays(data, avccSize, offset, arrayIdx, numArrays, annexBData, stopping) ==
    IF arrayIdx < numArrays /\ offset + 3 <= avccSize
      THEN LET numNalus == data[offset + 2] * 256 + data[offset + 3]
               nalus == convertRecords(data, avccSize, offset + 3, 0, numNalus, annexBData)
           IN  IF stopping /\ nalus.broke THEN nalus.annexBData
               ELSE convertArrays(data, avccSize, nalus.offset, arrayIdx + 1, numArrays,
                                  nalus.annexBData, stopping)
      ELSE annexBData

\* the parameter sets of an AVC configuration record: data[5] & 0x1F sequence
\* parameter sets, then, if bytes are left, a count and the picture parameter sets
convertParameterSets(data, avccSize, stopping) ==
    LET numSPS == data[6] % 32
        sps == convertRecords(data, avccSize, 6, 0, numSPS, <<>>)
    IN  IF stopping /\ sps.broke THEN sps.annexBData
        ELSE IF sps.offset < avccSize
          THEN convertRecords(data, avccSize, sps.offset + 1, 0, data[sps.offset + 1],
                              sps.annexBData).annexBData
        ELSE sps.annexBData

\* VideoDecoder::convertAvccToAnnexB with isCodecConfig = true, on an empty
\* annexBData
convertConfigToAnnexB(b, avccSize, mime) ==
    IF b.null \/ avccSize < 4 THEN [ret |-> FALSE, annexBData |-> <<>>]
    ELSE IF mime = "video/hevc" \/ mime = "video/h265"
      THEN IF avccSize < 23 THEN [ret |-> FALSE, annexBData |-> <<>>]
           ELSE LET annexBData == convertArrays(b.data, avccSize, 23, 0, b.data[23], <<>>, FALSE)
                IN  [ret |-> annexBData # <<>>, annexBData |-> annexBData]
    ELSE IF avccSize < 7 THEN [ret |-> FALSE, annexBData |-> <<>>]
    ELSE LET annexBData == convertParameterSets(b.data, avccSize, FALSE)
         IN  [ret |-> annexBData # <<>>, annexBData |-> annexBData]

\* no buffer under detection or conversion
NoConversion ==
    [in |-> [b |-> NullBuffer, size |-> 0], isAvcc |-> <<>>, convert |-> <<>>, out |-> <<>>]

\* the call on session i with argument in returned with c; io keeps the argument
Called(op, i, c, in) ==
    /\ ses' = [ses EXCEPT ![i] = c.s]
    /\ g' = c.g
    /\ last' = [op |-> op, sid |-> i, pre |-> stateOf(ses[i]), ret |-> c.ret, out |-> c.out,
                calls |-> c.calls, inputs |-> c.inputs, enq |-> c.enq]
    /\ io' = [NoConversion EXCEPT !.in = in]
    /\ UNCHANGED <<kind, threadVars>>

\* initialize gets as far as the loop over the enumerated candidates
reachesCandidates(s, a, e) ==
    /\ IF Encoder THEN encoderArgsValid(a) ELSE decoderArgsValid(a)
    /\ ~transformValid(s)
    /\ e.startup
    /\ mimeToVideoFormat(a.mime) # "GUID_NULL"
    /\ e.enumOk
    /\ e.enum.activateCount # 0
    /\ Encoder \/ e.createType

\* initialize with its arguments and the enumerated candidates kept, and with
\* what the candidate loop did: the candidates it activated, the index it kept
InitializeWith(i, bound) ==
    /\ ses[i].alive
    /\ io = NoConversion
    /\ \E a \in IF Encoder THEN EncoderArgs ELSE DecoderArgs \cup LargeDecoderArgs :
         \E cands \in CandidateLists :
           \E e \in {x \in InitAnswers(g, bound) : x.enum = enumResult(cands)} :
             LET c == IF Encoder THEN VideoEncoder_initializeWith(Call(ses[i], g), a, e)
                                 ELSE VideoDecoder_initializeWith(Call(ses[i], g), a, e)
                 loop == IF reachesCandidates(ses[i], a, e)
                           THEN <<[index |-> e.enum.index, activated |-> activatedBy(cands, 1)]>>
                           ELSE <<>>
             IN  /\ ses' = [ses EXCEPT ![i] = c.s]
                 /\ g' = c.g
                 /\ last' = [op |-> "initialize", sid |-> i, pre |-> stateOf(ses[i]),
                             ret |-> c.ret, out |-> c.out, calls |-> c.calls,
                             inputs |-> c.inputs, enq |-> c.enq]
                 /\ io' = [NoConversion EXCEPT !.in = [a |-> a, cands |-> cands], !.out = loop]
                 /\ UNCHANGED <<kind, threadVars>>

\* pushFrame(frame, ...) / pushSample(data, size, ...) with its argument kept
PushWith(i, bound) ==
    /\ ses[i].alive
    /\ IF Encoder
         THEN \E frame \in Frames :
                \E c \in VideoEncoder_pushFrame(Call(ses[i], g), frame, nextPresentationTime, bound) :
                  Called("push", i, c, frame)
         ELSE \E sample \in InputSamples :
                \E c \in VideoDecoder_pushSample(Call(ses[i], g), sample, nextPresentationTime, bound) :
                  Called("push", i, c, sample)

(***************************************************************************)
(* Threads sharing a session.  Every public member function constructs a   *)
(* ScopedLock on lock_ first and holds it until it returns; lock[i] is the *)
(* thread owning the lock_ of session i, 0 when it is free.  A thread is   *)
(* at "idle" outside a call, at "locked" once its ScopedLock is            *)
(* constructed, at "computed" when the body ran on what it read (c holds   *)
(* what the body writes back), and at "moving" in the member-wise part of  *)
(* the move assignment.                                                    *)
(***************************************************************************)
Threads == 1 .. 3

Sessions == {1, 2}

\* c is the running call from "computed" on, and empty before
NoThread == [pc |-> "idle", op |-> "none", sid |-> 0, c |-> <<>>]

\* samples the drains enqueued and samples popSample handed out, in order
NoHistory == [running |-> FALSE, enqueued |-> <<>>, returned |-> <<>>]

NoThreads ==
    /\ lock = [i \in Sessions |-> 0]
    /\ thr = [t \in Threads |-> NoThread]
    /\ hist = NoHistory

\* lock_ of session i can be taken
lockIgnored(i) == TRUE

lockFree(i) == lock[i] = 0

\* the calls thread t makes: thread 1 feeds the session, the others consume
ThreadOps(t) ==
    CASE t = 1 -> {"push"}
      [] t = 2 -> {"pop", "isStarted", "isInitialized"}
      [] OTHER -> {"pop", "stop"}

\* what the body of member function op of session i does with what it finds
callResults(op, i, bound) ==
    CASE op = "push" ->
           IF Encoder
             THEN UNION {VideoEncoder_pushFrame(Call(ses[i], g), frame, nextPresentationTime, bound) :
                           frame \in Frames}
             ELSE UNION {VideoDecoder_pushSample(Call(ses[i], g), sample, nextPresentationTime, bound) :
                           sample \in InputSamples}
      [] op = "pop" ->
           IF Encoder THEN VideoEncoder_popSample(Call(ses[i], g))
                      ELSE VideoDecoder_popFrame(Call(ses[i], g))
      [] op = "stop" ->
           IF Encoder THEN VideoEncoder_stop(Call(ses[i], g))
                      ELSE VideoDecoder_stop(Call(ses[i], g))
      [] op = "isStarted" -> {Return(Call(ses[i], g), ses[i].isStarted_)}
      [] op = "isInitialized" -> {Return(Call(ses[i], g), transformValid(ses[i]))}
      [] OTHER -> released(i)

\* thread t is inside code that reads or writes the members of session i
accessing(t, i) == thr[t].sid = i /\ thr[t].pc \in {"locked", "computed", "moving"}

\* const ScopedLock scopedLock(lock_) at the top of member function op; the move
\* assignment gets there through the release() it calls first
Enter(t, op, i) ==
    /\ hist.running
    /\ thr[t].pc = "idle"
    /\ ses[i].alive
    /\ lockFree(i)
    /\ lock' = [lock EXCEPT ![i] = t]
    /\ thr' = [thr EXCEPT ![t] = [pc |-> "locked", op |-> op, sid |-> i, c |-> NoThread.c]]
    /\ UNCHANGED <<kind, ses, g, last, hist, io>>

\* the body of the member function runs on the members it reads
Compute(t, bound) ==
    /\ thr[t].pc = "locked"
    /\ \E c \in callResults(thr[t].op, thr[t].sid, bound) :
         thr' = [thr EXCEPT ![t].pc = "computed", ![t].c = c]
    /\ UNCHANGED <<kind, ses, g, last, lock, hist, io>>

\* the member function returns: what it wrote is in the members, the ScopedLock
\* is destroyed; the move assignment goes on to its member-wise part
Leave(t) ==
    LET i == thr[t].sid
        c == thr[t].c
    IN  /\ thr[t].pc = "computed"
        /\ ses' = [ses EXCEPT ![i] = c.s]
        /\ g' = c.g
        /\ last' = [op |-> thr[t].op, sid |-> i, pre |-> stateOf(ses[i]), ret |-> c.ret,
                    out |-> c.out, calls |-> c.calls, inputs |-> c.inputs, enq |-> c.enq]
        /\ lock' = [lock EXCEPT ![i] = 0]
        /\ thr' = [thr EXCEPT ![t] = IF thr[t].op = "move"
                                       THEN [NoThread EXCEPT !.pc = "moving", !.op = "move", !.sid = i]
                                       ELSE NoThread]
        /\ hist' = [hist EXCEPT !.enqueued = @ \o c.enq,
                                 !.returned = IF thr[t].op = "pop" /\ isValid(c.out)
                                                THEN Append(@, c.out) ELSE @]
        /\ UNCHANGED <<kind, io>>

\* the member-wise part of ses[i] = std::move(ses[j]), after release() returned
MoveMembers(t, j) ==
    LET i == thr[t].sid
    IN  /\ thr[t].pc = "moving"
        /\ ses' = [ses EXCEPT ![i] = movedInto(ses[i], ses[j]), ![j] = movedFrom(ses[j])]
        /\ last' = [NoCall EXCEPT !.op = "move", !.sid = i, !.pre = stateOf(ses[i]), !.ret = TRUE]
        /\ thr' = [thr EXCEPT ![t] = NoThread]
        /\ UNCHANGED <<kind, g, lock, hist, io>>

\* the thread that owns the session sets it up before the others use it
Setup(i, bound) ==
    /\ ~hist.running
    /\ \/ Initialize(i, bound)
       \/ Start(i)

Spawn(i) ==
    /\ ~hist.running
    /\ ses[i].isStarted_
    /\ hist' = [hist EXCEPT !.running = TRUE]
    /\ UNCHANGED <<kind, ses, g, last, lock, thr, io>>

(***************************************************************************)
(* One session, encoder or decoder.                                        *)
(***************************************************************************)
Init ==
    /\ kind \in {"encoder", "decoder"}
    /\ ses = [i \in {1} |-> NewSession]
    /\ g = NewGlobal
    /\ last = NoCall
    /\ NoThreads
    /\ io = NoConversion

Next ==
    \E i \in DOMAIN ses :
      \/ Initialize(i, MaxStartups)
      \/ Start(i)
      \/ Stop(i)
      \/ Push(i, MaxPush)
      \/ Pop(i)
      \/ Drain(i)
      \/ Release(i)
      \/ Destroy(i)

Spec == Init /\ [][Next]_vars

(***************************************************************************)
(* One session that can be initialized more than once.                     *)
(***************************************************************************)
NextLife ==
    \E i \in DOMAIN ses :
      \/ Initialize(i, MaxLifeStartups)
      \/ Start(i)
      \/ Stop(i)
      \/ Push(i, MaxLifePush)
      \/ Pop(i)
      \/ Drain(i)
      \/ Release(i)
      \/ Destroy(i)

SpecLife == Init /\ [][NextLife]_vars

(***************************************************************************)
(* Two sessions of the same kind and move assignment between them.         *)
(***************************************************************************)
InitMove ==
    /\ kind \in {"encoder", "decoder"}
    /\ ses = [i \in {1, 2} |-> NewSession]
    /\ g = NewGlobal
    /\ last = NoCall
    /\ NoThreads
    /\ io = NoConversion

NextMove ==
    \E i \in DOMAIN ses :
      \/ Initialize(i, MaxMoveStartups)
      \/ Start(i)
      \/ Stop(i)
      \/ Push(i, MaxMovePush)
      \/ Pop(i)
      \/ Drain(i)
      \/ Release(i)
      \/ Destroy(i)
      \/ \E j \in DOMAIN ses : MoveAssign(i, j)

SpecMove == InitMove /\ [][NextMove]_vars

(***************************************************************************)
(* Properties.  In an action formula the unprimed variables are the state  *)
(* in which the call is made, last' describes the call, and the primed     *)
(* variables are the state in which it returns.                            *)
(***************************************************************************)

\* C1: a push on a session that is not started (never initialized, initialized but not
\* started, stopped, released) returns false and submits nothing to the transform; a
\* push returns true only on a started session
C1_PushOnlyWhileStarted ==
    last.op = "push" =>
      /\ (last.pre # "started" => ~last.ret /\ last.inputs = <<>> /\ last.calls = <<>>)
      /\ (last.ret => last.pre = "started")

\* a push on an initialized session that is not started was refused
C1_PushRefusedWhileNotStarted ==
    /\ last.op = "push"
    /\ last.pre = "initialized"
    /\ transformValid(ses[last.sid])
    /\ ~last.ret

\* C2, as the specification states it: in every reachable state the transform handle of
\* a session is valid iff an initialize of the session returned true and release was not
\* called since, and isStarted_ holds only while the handle is valid
C2_HandleValidIffInitialized ==
    \A i \in DOMAIN ses :
      /\ transformValid(ses[i]) <=> ses[i].initOk
      /\ ses[i].isStarted_ => transformValid(ses[i])

\* C2, amended: the handle of a session is valid iff the session holds a transform, which
\* it gets when its initialize returns true or a move assignment hands it the transform
\* of another session, and gives up in release and when it is moved from; isStarted_
\* holds only while the handle is valid
C2_HandleValidIffOwned ==
    \A i \in DOMAIN ses :
      /\ transformValid(ses[i]) <=> ses[i].owns
      /\ ses[i].isStarted_ => transformValid(ses[i])

\* a move assignment gave a session a valid handle although no initialize of that
\* session returned true, and left the other session without its handle
C2_HandleTakenOverByMove ==
    /\ last.op = "move"
    /\ \E i, j \in DOMAIN ses :
         /\ i # j
         /\ transformValid(ses[i]) /\ ~ses[i].initOk /\ ses[i].owns
         /\ ~transformValid(ses[j]) /\ ses[j].initOk /\ ~ses[j].owns

\* C3: no unit the transform holds when stop() is called on a started session is lost
\* because of stop(): the encoder's stop leaves none in the transform, where popSample
\* of a stopped session does not look, and enqueues a payload sample for each; the
\* decoder's stop leaves all of them in the transform, where popFrame finds them
C3_DrainBeforeStop ==
    [][\A i \in DOMAIN ses :
         (last'.op = "stop" /\ last'.sid = i /\ last'.pre = "started") =>
           IF Encoder
             THEN /\ ses'[i].buf = <<>>
                  /\ \A k \in 1..Len(ses[i].buf) :
                       \E n \in 1..Len(ses'[i].encodedSamples_) :
                         /\ ~isConfiguration(ses'[i].encodedSamples_[n])
                         /\ ses'[i].encodedSamples_[n].presentationTime
                              = ses[i].buf[k].sampleTime \div 10
             ELSE ses'[i].buf = ses[i].buf]_vars

\* C4: within one epoch of an encoder at most one codec configuration sample is
\* enqueued, and none is enqueued after a key-frame sample of the epoch
C4_OneConfigBeforeFirstKeyFrame ==
    [][\A i \in DOMAIN ses :
         (Encoder /\ last'.sid = i /\ last'.op \in {"push", "pop", "stop"}) =>
           /\ ses'[i].epochConfigs <= 1
           /\ \A k \in 1..Len(last'.enq) :
                isConfiguration(last'.enq[k]) =>
                  /\ ~ses[i].epochKey
                  /\ \A n \in 1..(k - 1) : ~isKeyFrame(last'.enq[n])]_vars

\* C5, as the specification states it: popSample returns the oldest sample of a
\* non-empty queue without contacting the transform; on an empty queue it makes exactly
\* one drain attempt and returns the oldest sample the attempt enqueued, or the invalid
\* sample; samples leave the queue in the order in which they were enqueued
C5_PopDrainsWheneverQueueEmpty ==
    [][\A i \in DOMAIN ses :
         (Encoder /\ last'.sid = i /\ last'.op = "pop") =>
           LET queue == ses[i].encodedSamples_
               all == queue \o last'.enq
           IN  /\ queue # <<>> => last'.calls = <<>>
               /\ queue = <<>> => last'.calls = <<"drainOutputSamples">>
               /\ IF all = <<>>
                    THEN last'.out = InvalidSample /\ ses'[i].encodedSamples_ = <<>>
                    ELSE last'.out = Head(all) /\ ses'[i].encodedSamples_ = Tail(all)]_vars

\* C5, amended: popSample returns the oldest sample of a non-empty queue without
\* contacting the transform; on an empty queue of a started session it makes exactly one
\* drain attempt and returns the oldest sample the attempt enqueued, or the invalid
\* sample; on an empty queue of a session that is not started it returns the invalid
\* sample without contacting the transform; every other call but release appends what it
\* enqueues, so samples leave the queue in the order in which they were enqueued
C5_PopOldestDrainOnlyWhileStarted ==
    [][\A i \in DOMAIN ses :
         (Encoder /\ last'.sid = i) =>
           LET queue == ses[i].encodedSamples_
               all == queue \o last'.enq
           IN  /\ last'.op = "pop" =>
                    /\ queue # <<>> => last'.calls = <<>>
                    /\ (queue = <<>> /\ last'.pre = "started") =>
                         last'.calls = <<"drainOutputSamples">>
                    /\ (queue = <<>> /\ last'.pre # "started") =>
                         last'.calls = <<>> /\ last'.out = InvalidSample
                    /\ IF all = <<>>
                         THEN last'.out = InvalidSample /\ ses'[i].encodedSamples_ = <<>>
                         ELSE last'.out = Head(all) /\ ses'[i].encodedSamples_ = Tail(all)
               /\ last'.op \in {"initialize", "start", "stop", "push"} =>
                    ses'[i].encodedSamples_ = all]_vars

\* a popSample on an empty queue drained a configuration sample and a key-frame sample
\* and returned the first, leaving the second in the queue
C5_PopReturnedOldestDrained ==
    /\ Encoder
    /\ last.op = "pop"
    /\ last.pre = "started"
    /\ Len(last.enq) = 2
    /\ last.out = last.enq[1]
    /\ ses[last.sid].encodedSamples_ = <<last.enq[2]>>

\* C6: start() on a started session returns true, sends no message to the transform and
\* changes neither the session nor the transform
C6_StartIdempotent ==
    [][\A i \in DOMAIN ses :
         (last'.op = "start" /\ last'.sid = i /\ last'.pre = "started") =>
           /\ last'.ret
           /\ last'.calls = <<>>
           /\ ses' = ses
           /\ g' = g]_vars

\* start() was called on a started session
C6_StartedTwice ==
    /\ last.op = "start"
    /\ last.pre = "started"
    /\ ses[last.sid].isStarted_

\* C7: stop() returns true from every state and for every answer of the transform, and
\* leaves isStarted_ false; on a session that is not started it sends no message to the
\* transform and changes nothing
C7_StopAlwaysSucceeds ==
    [][\A i \in DOMAIN ses :
         (last'.op = "stop" /\ last'.sid = i) =>
           /\ last'.ret
           /\ ~ses'[i].isStarted_
           /\ last'.pre # "started" =>
                /\ last'.calls = <<>>
                /\ ses' = ses
                /\ g' = g]_vars

\* stop() of a started session returned although its drain pass ended early and left a
\* unit in the transform
C7_StoppedWithTruncatedDrain ==
    /\ last.op = "stop"
    /\ last.pre = "started"
    /\ last.ret
    /\ ~ses[last.sid].isStarted_
    /\ ses[last.sid].buf # <<>>

\* C8, as the specification states it: no transform is released more than once, every
\* transform of a destroyed session was released once, and release() on a session
\* without a valid handle (never initialized, or released) releases nothing and changes
\* nothing
C8_ReleaseWithoutHandleChangesNothing ==
    [][/\ \A h \in DOMAIN g'.rel : g'.rel[h] <= 1
       /\ \A i \in DOMAIN ses :
            /\ (last'.op = "destroy" /\ last'.sid = i) =>
                 \A h \in DOMAIN g'.rel : g'.rel[h] = 1
            /\ (last'.op = "release" /\ last'.sid = i /\ last'.pre = "uninitialized") =>
                 /\ last'.calls = <<>>
                 /\ ses' = ses
                 /\ g' = g]_vars

\* C8, amended: no transform is released more than once, every transform of a destroyed
\* session was released once, and release() on a session without a valid handle releases
\* nothing and sends nothing to a transform; it changes nothing if mfStarted_ is false,
\* and if mfStarted_ is true (an initialize failed after MFStartup) it shuts the
\* platform down and clears mfStarted_, and changes nothing else
C8_HandleReleasedOnce ==
    [][/\ \A h \in DOMAIN g'.rel : g'.rel[h] <= 1
       /\ \A i \in DOMAIN ses :
            /\ (last'.op = "destroy" /\ last'.sid = i) =>
                 \A h \in DOMAIN g'.rel : g'.rel[h] = 1
            /\ (last'.op \in {"release", "destroy"} /\ last'.sid = i
                  /\ last'.pre = "uninitialized") =>
                 /\ last'.calls = <<>>
                 /\ g'.rel = g.rel
                 /\ IF ses[i].mfStarted_
                      THEN /\ ses' = [ses EXCEPT ![i].mfStarted_ = FALSE,
                                                 ![i].alive = last'.op # "destroy"]
                           /\ g' = [g EXCEPT !.shutdowns = @ + 1]
                      ELSE /\ ses' = [ses EXCEPT ![i].alive = last'.op # "destroy"]
                           /\ g' = g]_vars

\* a session was destroyed after its release(): its transform was released once
C8_DestroyedAfterRelease ==
    /\ last.op = "destroy"
    /\ last.pre = "uninitialized"
    /\ ~ses[last.sid].alive
    /\ Len(g.rel) = 1
    /\ g.rel[1] = 1

\* C9: after release(), from whatever state it was called, the handle is invalid,
\* isStarted_ is false, width_, height_, mftProvidesOutputSamples_, outputBufferSize_ and
\* codecConfigEmitted_ have their defaults and the queue is empty; a pop that follows
\* returns the invalid sample or frame
C9_ReleaseResetsSession ==
    [][\A i \in DOMAIN ses :
         /\ (last'.op = "release" /\ last'.sid = i) =>
              /\ ~transformValid(ses'[i])
              /\ ~ses'[i].isStarted_
              /\ ses'[i].width_ = NewSession.width_
              /\ ses'[i].height_ = NewSession.height_
              /\ ses'[i].mftProvidesOutputSamples_ = NewSession.mftProvidesOutputSamples_
              /\ ses'[i].outputBufferSize_ = NewSession.outputBufferSize_
              /\ ses'[i].codecConfigEmitted_ = NewSession.codecConfigEmitted_
              /\ ses'[i].encodedSamples_ = <<>>
         /\ (last.op = "release" /\ last.sid = i /\ last'.op = "pop" /\ last'.sid = i) =>
              /\ ~last'.ret
              /\ ~isValid(last'.out)
              /\ Encoder => last'.out = InvalidSample]_vars

\* release() of a started encoder: the implicit stop drained samples into the queue,
\* and the queue is empty afterwards
C9_ReleasedWithDrainedSamples ==
    /\ Encoder
    /\ last.op = "release"
    /\ last.pre = "started"
    /\ last.enq # <<>>
    /\ ses[last.sid].encodedSamples_ = <<>>

\* C10: a pushFrame whose first submission is answered MF_E_NOTACCEPTING runs the drain
\* once, submits the same input once more and returns true iff that submission is
\* accepted (and then drains again); no pushFrame submits more than twice; any other
\* failure of the first submission returns false with no second submission
C10_PushFrameRetriesOnce ==
    (Encoder /\ last.op = "push" /\ last.inputs # <<>>) =>
      LET first == last.inputs[1]
      IN  /\ Len(last.inputs) <= 2
          /\ first.res = "MF_E_NOTACCEPTING" =>
               /\ Len(last.inputs) = 2
               /\ last.inputs[2].sampleTime = first.sampleTime
               /\ last.ret <=> last.inputs[2].res = "S_OK"
               /\ last.calls = IF last.ret
                                 THEN <<"ProcessInput", "drainOutputSamples", "ProcessInput",
                                        "drainOutputSamples">>
                                 ELSE <<"ProcessInput", "drainOutputSamples", "ProcessInput">>
          /\ first.res \notin {"S_OK", "MF_E_NOTACCEPTING"} =>
               /\ ~last.ret
               /\ last.calls = <<"ProcessInput">>
               /\ Len(last.inputs) = 1
          /\ first.res = "S_OK" =>
               /\ last.ret
               /\ Len(last.inputs) = 1

\* a pushFrame was answered MF_E_NOTACCEPTING, drained, and its second submission was
\* accepted
C10_RetryAccepted ==
    /\ Encoder
    /\ last.op = "push"
    /\ Len(last.inputs) = 2
    /\ last.inputs[1].res = "MF_E_NOTACCEPTING"
    /\ last.inputs[2].res = "S_OK"
    /\ last.ret

\* C11: a pushSample of the decoder whose submission is answered MF_E_NOTACCEPTING
\* returns false after that one submission, without a drain, and leaves session and
\* transform as they were, started; a pushSample whose submission the transform accepts
\* returns true
C11_PushSampleBackpressure ==
    [][\A i \in DOMAIN ses :
         (~Encoder /\ last'.op = "push" /\ last'.sid = i /\ last'.inputs # <<>>) =>
           /\ Len(last'.inputs) = 1
           /\ last'.calls = <<"ProcessInput">>
           /\ last'.inputs[1].res = "MF_E_NOTACCEPTING" =>
                /\ ~last'.ret
                /\ ses' = ses
                /\ g' = g
                /\ stateOf(ses'[i]) = "started"
           /\ last'.inputs[1].res = "S_OK" => last'.ret]_vars

\* a pushSample of a started decoder was refused with MF_E_NOTACCEPTING
C11_PushSampleRefused ==
    /\ ~Encoder
    /\ last.op = "push"
    /\ Len(last.inputs) = 1
    /\ last.inputs[1].res = "MF_E_NOTACCEPTING"
    /\ ~last.ret
    /\ ses[last.sid].isStarted_

\* C12: a start() of an initialized session whose begin-streaming or start-of-stream
\* notification the transform rejects returns false and leaves the session initialized
\* and not started, with every member and the queue as they were (the transform may
\* have been flushed); a start() whose two notifications are accepted returns true
C12_RejectedStartLeavesSession ==
    [][\A i \in DOMAIN ses :
         (last'.op = "start" /\ last'.sid = i /\ last'.pre = "initialized") =>
           LET rejected(msg) ==
                 \E k \in 1..(Len(last'.calls) - 1) :
                   last'.calls[k] = msg /\ last'.calls[k + 1] = "E_FAIL"
           IN  IF rejected("MFT_MESSAGE_NOTIFY_BEGIN_STREAMING")
                    \/ rejected("MFT_MESSAGE_NOTIFY_START_OF_STREAM")
                 THEN /\ ~last'.ret
                      /\ ses' = [ses EXCEPT ![i].buf = ses'[i].buf]
                      /\ g' = g
                      /\ stateOf(ses'[i]) = "initialized"
                 ELSE /\ last'.ret
                      /\ ses'[i].isStarted_]_vars

\* a start() failed because the transform rejected the start-of-stream notification
C12_StartOfStreamRejected ==
    /\ last.op = "start"
    /\ last.pre = "initialized"
    /\ ~last.ret
    /\ Len(last.calls) >= 2
    /\ last.calls[Len(last.calls) - 1] = "MFT_MESSAGE_NOTIFY_START_OF_STREAM"
    /\ last.calls[Len(last.calls)] = "E_FAIL"
    /\ stateOf(ses[last.sid]) = "initialized"

\* C13: initialize on a session whose handle is valid (initialized, started or stopped)
\* returns false, calls neither MFStartup nor the transform, and changes nothing
C13_InitializeOnlyFromUninitialized ==
    [][\A i \in DOMAIN ses :
         (last'.op = "initialize" /\ last'.sid = i /\ last'.pre # "uninitialized") =>
           /\ ~last'.ret
           /\ last'.calls = <<>>
           /\ g'.startups = g.startups
           /\ ses' = ses
           /\ g' = g]_vars

\* initialize was refused on a started session although MFStartup could have succeeded
C13_InitializeRefusedWhileStarted ==
    /\ last.op = "initialize"
    /\ last.pre = "started"
    /\ ~last.ret
    /\ g.startups < MaxLifeStartups
    /\ ses[last.sid].isStarted_

\* C14, as the specification states it: once a transform of the session was released,
\* the session is never initialized or started again
C14_ReleasedIsTerminal ==
    \A i \in DOMAIN ses :
      (\E h \in DOMAIN g.rel : g.rel[h] >= 1) =>
        ~transformValid(ses[i]) /\ ~ses[i].isStarted_

\* C14, amended: a released session is uninitialized like a new one; no call on an
\* uninitialized session but an initialize that returns true makes its handle valid, and
\* none makes isStarted_ true
C14_UninitializedUntilInitialize ==
    [][\A i \in DOMAIN ses :
         (last'.sid = i /\ stateOf(ses[i]) = "uninitialized") =>
           /\ ~ses'[i].isStarted_
           /\ transformValid(ses'[i]) <=> (last'.op = "initialize" /\ last'.ret)]_vars

\* a session was initialized again after its release()
C14_InitializedAfterRelease ==
    /\ last.op = "initialize"
    /\ last.ret
    /\ Len(g.rel) = 2
    /\ g.rel[1] = 1
    /\ transformValid(ses[last.sid])

\* C15: when release() returns, the session has called MFShutdown as often as its
\* MFStartup calls succeeded
C15_StartupShutdownBalanced ==
    last.op = "release" => g.shutdowns = g.startups

(***************************************************************************)
(* One encoder shared by a feeding thread and two consuming threads.       *)
(***************************************************************************)
\* frames the encoder accepts while the threads run
MaxThreadPush == 1

InitThreads ==
    /\ kind = "encoder"
    /\ ses = [i \in {1} |-> NewSession]
    /\ g = NewGlobal
    /\ last = NoCall
    /\ NoThreads
    /\ io = NoConversion

NextThreads ==
    \/ Setup(1, MaxStartups)
    \/ Spawn(1)
    \/ \E t \in Threads :
         \/ \E op \in ThreadOps(t) : Enter(t, op, 1)
         \/ Compute(t, MaxThreadPush)
         \/ Leave(t)

SpecThreads == InitThreads /\ [][NextThreads]_vars

(***************************************************************************)
(* A session shared by threads, one of which move-assigns to it.           *)
(***************************************************************************)
InitThreadsMove ==
    /\ kind \in {"encoder", "decoder"}
    /\ ses = [i \in Sessions |-> NewSession]
    /\ g = NewGlobal
    /\ last = NoCall
    /\ NoThreads
    /\ io = NoConversion

NextThreadsMove ==
    \/ Setup(1, MaxStartups)
    \/ Spawn(1)
    \/ \E t \in Threads :
         \/ \E op \in ThreadOps(t) : Enter(t, op, 1)
         \/ Compute(t, MaxThreadPush)
         \/ Leave(t)
    \/ Enter(3, "move", 1)
    \/ MoveMembers(3, 2)

SpecThreadsMove == InitThreadsMove /\ [][NextThreadsMove]_vars

\* C16: every thread that reads or writes the state of a session holds the
\* session's lock while it does, so no two threads are inside code that accesses
\* the state of the same session at the same time; the calls that change the
\* state, the move assignment and isInitialized / isStarted are all covered.
C16_NoTwoThreadsInside ==
    \A i \in Sessions : \A t, u \in Threads :
      accessing(t, i) /\ accessing(u, i) => t = u

\* C17: with one thread in pushFrame and other threads in popSample and stop on
\* the same encoder, the samples popSample has handed out, followed by the
\* samples still queued, are under every interleaving exactly the samples the
\* drains enqueued, in enqueue order: none is returned twice, none is dropped,
\* and a consumer sees them in the order they were enqueued.
C17_EachSampleReturnedOnce ==
    hist.returned \o ses[1].encodedSamples_ = hist.enqueued

\* a consumer took the oldest sample, a newer one is still queued, and another
\* consumer has entered popSample
C17_ConsumersShareQueue ==
    /\ last.op = "pop"
    /\ hist.returned # <<>>
    /\ ses[1].encodedSamples_ # <<>>
    /\ thr[3].pc = "locked"
    /\ thr[3].op = "pop"

(***************************************************************************)
(* Detection and conversion of one buffer.  The bytes are small so that    *)
(* every length field stays below 2^31; a buffer that is not null is       *)
(* passed with its own size.                                               *)
(***************************************************************************)
\* bytes of the buffers that are enumerated in full
MaxBufLen == 5
\* bytes of one unit of a buffer built from units
MaxPayloadLen == 4

ByteValues == {0, 1, 2}

ByteStrings == UNION {[1 .. n -> ByteValues] : n \in 0 .. MaxBufLen}

Payloads == UNION {[1 .. n -> {0, 1}] : n \in 1 .. MaxPayloadLen}

\* one unit: the 4-byte big-endian length, then the payload
unit(payload) ==
    <<0, 0, Len(payload) \div 256, Len(payload) % 256>> \o payload

\* buffers of one and of two units
UnitBuffers ==
    {unit(p) : p \in Payloads} \cup {unit(p) \o unit(q) : p, q \in Payloads}

\* buffers starting 00 00 01 XX, around the size at which XX fits as a length
LongBuffers ==
    {<<0, 0, 1, x>> \o [k \in 1 .. n |-> 2] : x \in {0, 1}, n \in 255 .. 258}

\* a unit followed by a length field of 0, 1 or 2 with no or one byte behind it
BrokenBuffers ==
    {unit(p) \o <<0, 0, 0, n>> \o q : p \in Payloads, n \in {0, 1, 2}, q \in {<<>>, <<1>>}}

ExampleBuffers == {<<0, 0, 2, 16>>, <<0, 0, 0, 1, 103, 66>>, <<0, 0, 1, 103>>}

Inputs ==
    {[b |-> NullBuffer, size |-> n] : n \in {0, 4}}
      \cup {[b |-> Buffer(d), size |-> Len(d)] :
               d \in ByteStrings \cup UnitBuffers \cup BrokenBuffers \cup LongBuffers
                       \cup ExampleBuffers}

InitBits ==
    /\ kind = "decoder"
    /\ ses = [i \in {1} |-> NewSession]
    /\ g = NewGlobal
    /\ last = NoCall
    /\ NoThreads
    /\ io \in {[NoConversion EXCEPT !.in = in] : in \in Inputs}

\* isAvcc(data, size, isCodecConfig) is called on the buffer
Detect ==
    /\ io.isAvcc = <<>>
    /\ \E isCodecConfig \in BOOLEAN :
         io' = [io EXCEPT !.isAvcc = <<[isCodecConfig |-> isCodecConfig,
                                        ret |-> isAvcc(io.in.b, io.in.size, isCodecConfig)]>>]
    /\ UNCHANGED <<kind, ses, g, last, threadVars>>

\* convertAvccToAnnexB(data, size, annexBData, false) is called on the buffer
Convert ==
    /\ io.convert = <<>>
    /\ io' = [io EXCEPT !.convert = <<convertAvccToAnnexB(io.in.b, io.in.size)>>]
    /\ UNCHANGED <<kind, ses, g, last, threadVars>>

NextBits == Detect \/ Convert

SpecBits == InitBits /\ [][NextBits]_vars

\* the buffer was passed to isAvcc as a sample, and isAvcc returned ret
detectedSample(ret) ==
    io.isAvcc # <<>> /\ ~io.isAvcc[1].isCodecConfig /\ io.isAvcc[1].ret = ret

startsWith(data, prefix) ==
    Len(data) >= Len(prefix) /\ SubSeq(data, 1, Len(prefix)) = prefix

\* the conversion of the buffer returned true with output
convertedSample ==
    io.convert # <<>> /\ io.convert[1].ret /\ io.convert[1].annexBData # <<>>

\* C18: detection is consistent with conversion: whenever the conversion of a
\* buffer of at least 4 bytes as a sample returns true with output, isAvcc on
\* that buffer as a sample returns true; and isAvcc returns false for every
\* buffer that starts with a start code, 00 00 00 01 or 00 00 01.
C18_DetectionMatchesConversion ==
    /\ (convertedSample /\ io.in.size >= 4 /\ (detectedSample(TRUE) \/ detectedSample(FALSE)))
         => detectedSample(TRUE)
    /\ ((detectedSample(TRUE) \/ detectedSample(FALSE))
          /\ (startsWith(io.in.b.data, startCode) \/ startsWith(io.in.b.data, <<0, 0, 1>>)))
         => detectedSample(FALSE)

\* C18 as the code has it: a buffer the conversion accepts is detected as
\* length-prefixed unless it starts with 00 00 00 01; a buffer starting with
\* 00 00 00 01 is never detected as length-prefixed; a buffer starting with
\* 00 00 01 is detected as length-prefixed exactly when its first four bytes,
\* read as a big-endian length L, satisfy 0 < L <= size - 4.
C18_DetectionMatchesConversionButStartCode ==
    (detectedSample(TRUE) \/ detectedSample(FALSE)) =>
      /\ (convertedSample /\ ~startsWith(io.in.b.data, startCode)) => detectedSample(TRUE)
      /\ startsWith(io.in.b.data, startCode) => detectedSample(FALSE)
      /\ (io.in.size >= 4 /\ startsWith(io.in.b.data, <<0, 0, 1>>)) =>
           (detectedSample(TRUE) <=> (/\ bigEndian32(io.in.b.data, 0) > 0
                                      /\ bigEndian32(io.in.b.data, 0) <= io.in.size - 4))

\* a buffer starting 00 00 01 was converted and detected as length-prefixed
C18_ThreeByteStartCodeAsLength ==
    /\ convertedSample
    /\ detectedSample(TRUE)
    /\ startsWith(io.in.b.data, <<0, 0, 1>>)

\* data from offset on is a sequence of units, each a positive 4-byte big-endian
\* length and that many payload bytes, ending exactly at the end of data
RECURSIVE unitsFill(_, _)
unitsFill(data, offset) ==
    \/ offset = Len(data)
    \/ /\ offset + 4 <= Len(data)
       /\ bigEndian32(data, offset) > 0
       /\ offset + 4 + bigEndian32(data, offset) <= Len(data)
       /\ unitsFill(data, offset + 4 + bigEndian32(data, offset))

wellFormed(b) == ~b.null /\ b.data # <<>> /\ unitsFill(b.data, 0)

\* the payloads of such data, found by its length fields
RECURSIVE unitsByLength(_, _)
unitsByLength(data, offset) ==
    IF offset >= Len(data) THEN <<>>
    ELSE <<SubSeq(data, offset + 5, offset + 4 + bigEndian32(data, offset))>>
           \o unitsByLength(data, offset + 4 + bigEndian32(data, offset))

\* the payloads found by scanning bytes for 00 00 00 01 from position pos on:
\* each reaches from behind a start code to the next start code or the end
RECURSIVE splitAtStartCodes(_, _)
splitAtStartCodes(bytes, pos) ==
    LET found == {k \in pos .. Len(bytes) - 3 : SubSeq(bytes, k, k + 3) = startCode}
    IN  IF found = {} THEN <<>>
        ELSE LET first == CHOOSE k \in found : \A j \in found : k <= j
                 later == {k \in found : k >= first + 4}
                 next == IF later = {} THEN Len(bytes) + 1
                         ELSE CHOOSE k \in later : \A j \in later : k <= j
             IN  <<SubSeq(bytes, first + 4, next - 1)>> \o splitAtStartCodes(bytes, next)

containsStartCode(payload) ==
    \E k \in 1 .. Len(payload) - 3 : SubSeq(payload, k, k + 3) = startCode

\* C19: round trip: for every well-formed length-prefixed buffer, splitting the
\* output of the conversion at its 00 00 00 01 start codes gives the payloads
\* that parsing the input by its length fields gives, same order, same number.
C19_RoundTrip ==
    (io.convert # <<>> /\ wellFormed(io.in.b)) =>
      splitAtStartCodes(io.convert[1].annexBData, 1) = unitsByLength(io.in.b.data, 0)

\* C19 as the code has it: the round trip holds for the well-formed buffers none
\* of whose payloads contains the bytes 00 00 00 01.
C19_RoundTripOfPayloadsWithoutStartCode ==
    (/\ io.convert # <<>>
     /\ wellFormed(io.in.b)
     /\ \A k \in DOMAIN unitsByLength(io.in.b.data, 0) :
          ~containsStartCode(unitsByLength(io.in.b.data, 0)[k])) =>
      /\ io.convert[1].ret
      /\ splitAtStartCodes(io.convert[1].annexBData, 1) = unitsByLength(io.in.b.data, 0)

\* a buffer of two units was converted; the first payload ends in three zero
\* bytes, which run into the start code of the second
C19_ZerosBeforeStartCode ==
    /\ io.convert # <<>>
    /\ wellFormed(io.in.b)
    /\ unitsByLength(io.in.b.data, 0) = <<(<<1, 0, 0, 0>>), (<<0, 0, 1>>)>>

\* C20: isAvcc on a sample of at least 4 bytes returns false exactly when the
\* buffer starts with 00 00 00 01, or starts with 00 00 01 while the big-endian
\* value L of its first four bytes does not satisfy 0 < L <= size - 4, and true
\* for every other buffer; for fewer than 4 bytes or null data it returns false.
C20_IsAvccOfSample ==
    (detectedSample(TRUE) \/ detectedSample(FALSE)) =>
      IF io.in.b.null \/ io.in.size < 4
        THEN detectedSample(FALSE)
        ELSE detectedSample(FALSE) <=>
               \/ startsWith(io.in.b.data, startCode)
               \/ /\ startsWith(io.in.b.data, <<0, 0, 1>>)
                  /\ ~(0 < bigEndian32(io.in.b.data, 0) /\ bigEndian32(io.in.b.data, 0) <= io.in.size - 4)

\* a buffer of 261 bytes starting 00 00 01 01, whose length field of 257 just
\* fits, was detected as length-prefixed
C20_LengthOverStartCode ==
    /\ detectedSample(TRUE)
    /\ startsWith(io.in.b.data, <<0, 0, 1, 1>>)
    /\ io.in.size = 261

\* the payloads of the longest run of units from offset on whose length is
\* positive and fits in the bytes behind it
RECURSIVE leadingUnits(_, _)
leadingUnits(data, offset) ==
    IF /\ offset + 4 <= Len(data)
       /\ bigEndian32(data, offset) > 0
       /\ offset + 4 + bigEndian32(data, offset) <= Len(data)
      THEN <<SubSeq(data, offset + 5, offset + 4 + bigEndian32(data, offset))>>
             \o leadingUnits(data, offset + 4 + bigEndian32(data, offset))
      ELSE <<>>

\* every payload behind a start code, one after the other
RECURSIVE withStartCodes(_)
withStartCodes(units) ==
    IF units = <<>> THEN <<>>
    ELSE startCode \o Head(units) \o withStartCodes(Tail(units))

\* the input bytes the units take, length fields included
RECURSIVE bytesConsumed(_)
bytesConsumed(units) ==
    IF units = <<>> THEN 0
    ELSE 4 + Len(Head(units)) + bytesConsumed(Tail(units))

MaxUsagePush == 1

NextPush ==
    \E i \in DOMAIN ses :
      \/ Initialize(i, MaxStartups)
      \/ Start(i)
      \/ Stop(i)
      \/ PushWith(i, MaxUsagePush)
      \/ Pop(i)

SpecPush == Init /\ [][NextPush]_vars

\* pushFrame / pushSample was handed something it must refuse: no data or no
\* bytes, an invalid frame, or a frame of other than the negotiated dimensions
usageError(in, s) ==
    IF Encoder THEN ~in.valid \/ in.width # s.width_ \/ in.height # s.height_
               ELSE ~in.data \/ in.size = 0

\* C22: a push with a usage error on a started session (pushSample without data
\* or with size 0, pushFrame with an invalid frame or one whose width or height
\* is not the negotiated one) returns false, submits nothing to the transform
\* and leaves the session, its queue included, exactly as it was.
C22_UsageErrorChangesNothing ==
    [][\A i \in DOMAIN ses :
         (/\ last'.op = "push"
          /\ last'.sid = i
          /\ transformValid(ses[i])
          /\ ses[i].isStarted_
          /\ usageError(io'.in, ses[i]))
           => /\ ~last'.ret
              /\ last'.calls = <<>>
              /\ last'.inputs = <<>>
              /\ last'.enq = <<>>
              /\ ses' = ses
              /\ g' = g]_vars

\* a started encoder with samples queued refused a frame of the wrong width
C22_WrongWidthRefused ==
    /\ Encoder
    /\ last.op = "push"
    /\ last.pre = "started"
    /\ ~last.ret
    /\ io.in.valid
    /\ io.in.width # ses[1].width_
    /\ ses[1].isStarted_
    /\ ses[1].encodedSamples_ # <<>>

(***************************************************************************)
(* One initialize, followed with its arguments and candidates, and what    *)
(* the session does after it.                                              *)
(***************************************************************************)
NextInit ==
    \E i \in DOMAIN ses :
      \/ InitializeWith(i, MaxStartups)
      \/ Start(i)
      \/ Release(i)

SpecInit == Init /\ [][NextInit]_vars

\* arguments initialize has to refuse: no codec identity, a zero or over-large
\* width or height, for the encoder also a zero or over-large bitrate or a
\* frame rate that is not positive
refusedArguments(a) ==
    \/ a.mime = ""
    \/ a.width = 0 \/ a.height = 0
    \/ a.width > maximalWidth_ \/ a.height > maximalHeight_
    \/ Encoder /\ (a.bitrate = 0 \/ a.bitrate > maximalBitrate_ \/ a.frameRate <= 0)

\* C23: initialize of the encoder and of the decoder, handed no codec identity,
\* a zero width or height or one above the upper bound (the encoder also: a zero
\* or over-bound bitrate, a frame rate that is not positive), returns false,
\* leaves the session uninitialized, starts no subsystem and enumerates nothing.
C23_InvalidArgumentsRejected ==
    (last.op = "initialize" /\ io # NoConversion /\ refusedArguments(io.in.a)) =>
      /\ ~last.ret
      /\ stateOf(ses[1]) = "uninitialized"
      /\ g.startups = 0
      /\ ~ses[1].mfStarted_
      /\ io.out = <<>>

\* what a call asked of the transform, without the failures it was answered
askedOf(calls) == SelectSeq(calls, LAMBDA x : x # "E_FAIL")

\* C24: stop() on a started session, encoder or decoder, sends the drain command,
\* then collects the remaining outputs of the transform, and only then sends the
\* end-of-stream and end-streaming notifications; isStarted is false after all
\* of these.
C24_StopDrainsCollectsNotifies ==
    [][\A i \in DOMAIN ses :
         (last'.op = "stop" /\ last'.sid = i /\ last'.pre = "started") =>
           /\ askedOf(last'.calls) = <<"MFT_MESSAGE_COMMAND_DRAIN", "drainOutputSamples",
                                       "MFT_MESSAGE_NOTIFY_END_OF_STREAM",
                                       "MFT_MESSAGE_NOTIFY_END_STREAMING">>
           /\ ~ses'[i].isStarted_]_vars

\* C24 as the code has it: the encoder's stop sends the drain command, runs one
\* pass of drainOutputSamples and then sends the two notifications; the
\* decoder's stop sends the drain command and the two notifications and collects
\* nothing, so what the transform holds stays in it; both return true with
\* isStarted false.
C24_StopOrderOfEachSession ==
    [][\A i \in DOMAIN ses :
         (last'.op = "stop" /\ last'.sid = i /\ last'.pre = "started") =>
           /\ last'.ret
           /\ ~ses'[i].isStarted_
           /\ IF Encoder
                THEN askedOf(last'.calls) = <<"MFT_MESSAGE_COMMAND_DRAIN", "drainOutputSamples",
                                             "MFT_MESSAGE_NOTIFY_END_OF_STREAM",
                                             "MFT_MESSAGE_NOTIFY_END_STREAMING">>
                ELSE /\ askedOf(last'.calls) = <<"MFT_MESSAGE_COMMAND_DRAIN",
                                                 "MFT_MESSAGE_NOTIFY_END_OF_STREAM",
                                                 "MFT_MESSAGE_NOTIFY_END_STREAMING">>
                     /\ ses'[i].buf = ses[i].buf
                     /\ last'.enq = <<>>]_vars

\* a decoder was stopped while its transform held an accepted sample
C24_DecoderStoppedWithInputInside ==
    /\ ~Encoder
    /\ last.op = "stop"
    /\ last.pre = "started"
    /\ ses[1].buf # <<>>
    /\ ~ses[1].isStarted_

\* C25: the encoder's config-emitted flag is reset at every new epoch: in a
\* started encoder that has not enqueued a codec configuration sample since its
\* start() the flag is clear, so that the next clean-point unit is again
\* preceded in the queue by a codec configuration sample.
C25_ConfigFlagResetAtNewEpoch ==
    \A i \in DOMAIN ses :
      (Encoder /\ transformValid(ses[i]) /\ ses[i].isStarted_ /\ ses[i].epochConfigs = 0)
        => ~ses[i].codecConfigEmitted_

\* C26: the candidates are tried in the order of the enumeration; the session
\* keeps the first one that activates and accepts the type of the fixed side
\* and a type of the opposite port; no candidate behind it is activated; and
\* initialize returns false, the session uninitialized, exactly when no
\* candidate accepts both types.
C26_FirstAcceptingCandidateKept ==
    (last.op = "initialize" /\ io.out # <<>>) =>
      LET cands == io.in.cands
          accepting == {k \in DOMAIN cands : candidateAccepted(cands[k])}
          loop == io.out[1]
      IN  IF accepting = {}
            THEN /\ ~last.ret
                 /\ stateOf(ses[1]) = "uninitialized"
                 /\ loop.index = 0
                 /\ loop.activated = [k \in 1 .. Len(cands) |-> k]
            ELSE /\ last.ret
                 /\ transformValid(ses[1])
                 /\ loop.index \in accepting
                 /\ \A k \in accepting : loop.index <= k
                 /\ loop.activated = [k \in 1 .. loop.index |-> k]

\* two candidates that both accept were enumerated; the first was kept and the
\* second never activated
C26_SecondCandidateNotTried ==
    /\ last.op = "initialize"
    /\ last.ret
    /\ io.in.cands = <<"okFallback", "okPreferred">>
    /\ io.out = <<[index |-> 1, activated |-> <<1>>]>>

(***************************************************************************)
(* Conversion of one codec configuration record.  A record is its fixed    *)
(* head, the count byte behind it and a tail of small bytes.               *)
(***************************************************************************)
\* bytes behind the count byte
MaxConfigTail == 10

ConfigTails == UNION {[1 .. n -> {0, 1}] : n \in 0 .. MaxConfigTail}

\* HEVCDecoderConfigurationRecord: 22 bytes, numOfArrays, the arrays
HevcRecords == {[k \in 1 .. 22 |-> 1] \o <<numArrays>> \o tail :
                  numArrays \in {0, 1, 2}, tail \in ConfigTails}

\* AVCDecoderConfigurationRecord: 5 bytes, the byte holding the number of
\* sequence parameter sets in its low 5 bits, the parameter sets
AvcRecords == {<<1, 66, 0, 30, 255>> \o <<numSPS>> \o tail :
                 numSPS \in {0, 1, 225, 226}, tail \in ConfigTails}

ConfigInputs ==
    {[b |-> NullBuffer, size |-> 23, mime |-> "video/hevc"],
     [b |-> Buffer(<<1, 66, 0>>), size |-> 3, mime |-> "video/avc"]}
      \cup {[b |-> Buffer(d), size |-> Len(d), mime |-> m] :
               d \in HevcRecords \cup {[k \in 1 .. 22 |-> 1]}, m \in {"video/hevc", "video/h265"}}
      \cup {[b |-> Buffer(d), size |-> Len(d), mime |-> "video/avc"] : d \in AvcRecords}

InitConfig ==
    /\ kind = "decoder"
    /\ ses = [i \in {1} |-> NewSession]
    /\ g = NewGlobal
    /\ last = NoCall
    /\ NoThreads
    /\ io \in {[NoConversion EXCEPT !.in = in] : in \in ConfigInputs}

\* convertAvccToAnnexB(data, size, annexBData, true, mime) is called on the record
ConvertConfig ==
    /\ io.convert = <<>>
    /\ io' = [io EXCEPT !.convert = <<convertConfigToAnnexB(io.in.b, io.in.size, io.in.mime)>>]
    /\ UNCHANGED <<kind, ses, g, last, threadVars>>

NextConfig == ConvertConfig

SpecConfig == InitConfig /\ [][NextConfig]_vars

isHevc(mime) == mime = "video/hevc" \/ mime = "video/h265"

\* C27: the conversion of an HEVC configuration record returns false for fewer
\* than 23 bytes and true exactly when it wrote a unit, and when the 2-byte
\* length of a unit is more than the bytes left, parsing stops: no further unit
\* is written, not of that array and not of a later one.
C27_HevcRecordStopsAtViolation ==
    (io.convert # <<>> /\ isHevc(io.in.mime) /\ ~io.in.b.null) =>
      /\ io.in.size < 23 => ~io.convert[1].ret
      /\ io.convert[1].ret <=> io.convert[1].annexBData # <<>>
      /\ io.in.size >= 23 =>
           io.convert[1].annexBData
             = convertArrays(io.in.b.data, io.in.size, 23, 0, io.in.b.data[23], <<>>, TRUE)

\* C28: the conversion of an AVC configuration record returns false for fewer
\* than 7 bytes; it writes the first data[5] & 0x1F sequence parameter sets and
\* then the picture parameter sets, each behind 00 00 00 01; when the 2-byte
\* length of a record is more than the bytes left the output ends there, the
\* units written so far kept and nothing written after; it returns true exactly
\* when it wrote a unit.
C28_AvcRecordTruncatedAtViolation ==
    (io.convert # <<>> /\ ~isHevc(io.in.mime) /\ ~io.in.b.null) =>
      /\ io.in.size < 7 => ~io.convert[1].ret
      /\ io.convert[1].ret <=> io.convert[1].annexBData # <<>>
      /\ io.in.size >= 7 =>
           io.convert[1].annexBData = convertParameterSets(io.in.b.data, io.in.size, TRUE)

(***************************************************************************)
(* popFrame of the decoder with the answers of the transform kept.         *)
(***************************************************************************)
\* a declared output size above that of a FrameDim x FrameDim frame
BigOutSize == 8192

\* stream infos of a transform that provides no samples, with no declared size,
\* a declared size below and one above the size of a frame
WideStreamInfos ==
    StreamInfos \cup {[ok |-> TRUE, provides |-> FALSE, cbSize |-> size] :
                        size \in {0, OutSize, BigOutSize}}

SmallDecoderArgs == {[width |-> OtherDim, height |-> OtherDim, mime |-> "video/avc"]}

InitPop ==
    /\ kind = "decoder"
    /\ ses = [i \in {1} |-> NewSession]
    /\ g = NewGlobal
    /\ last = NoCall
    /\ NoThreads
    /\ io = NoConversion

InitializeDecoder(i, bound) ==
    /\ ses[i].alive
    /\ \E a \in DecoderArgs \cup SmallDecoderArgs :
         \E c \in VideoDecoder_initialize(Call(ses[i], g), a, bound) :
           Called("initialize", i, c, NoConversion.in)

\* popFrame with the answers it got kept in io.in, and in io.out the size of
\* the buffer it supplied to ProcessOutput, if it supplied one
PopWith(i) ==
    /\ ses[i].alive
    /\ \E a \in PopAnswers(ses[i], WideStreamInfos, BOOLEAN) :
         LET c == VideoDecoder_popFrameWith(Call(ses[i], g), a)
             supplied == IF /\ transformValid(ses[i])
                            /\ ~ses[i].mftProvidesOutputSamples_
                            /\ a.create = "ok"
                          THEN <<bufferSize(ses[i].outputBufferSize_, ses[i].width_,
                                            ses[i].height_)>>
                          ELSE <<>>
         IN  /\ ses' = [ses EXCEPT ![i] = c.s]
             /\ g' = c.g
             /\ last' = [op |-> "pop", sid |-> i, pre |-> stateOf(ses[i]), ret |-> c.ret,
                         out |-> c.out, calls |-> c.calls, inputs |-> c.inputs, enq |-> c.enq]
             /\ io' = [NoConversion EXCEPT !.in = a, !.out = supplied]
             /\ UNCHANGED <<kind, threadVars>>

NextPop ==
    \E i \in DOMAIN ses :
      \/ InitializeDecoder(i, MaxStartups)
      \/ Start(i)
      \/ Stop(i)
      \/ Push(i, MaxUsagePush)
      \/ PopWith(i)

SpecPop == InitPop /\ [][NextPop]_vars

\* popFrame got as far as ProcessOutput
askedForOutput(s, a) ==
    transformValid(s) /\ (s.mftProvidesOutputSamples_ \/ a.create = "ok")

\* C29: popFrame of the decoder never changes isStarted_ and never releases the
\* transform.  On 'need more input' it returns the invalid frame and changes
\* nothing.  On 'stream changed' it sets the output type again (the NV12 type,
\* if the transform offers one), reads the stream info again (the
\* provides-samples flag and the size hint take the answer, if there is one),
\* returns the invalid frame and changes nothing else, so a started session
\* stays started with the transform's units still inside.  On success it takes
\* the oldest unit from the transform and returns the frame built from it, with
\* the unit's sample time / 10 as presentation time.
C29_PopFrameThreeAnswers ==
    [][\A i \in DOMAIN ses :
         (last'.op = "pop" /\ last'.sid = i) =>
           LET a == io'.in
               s == ses[i]
           IN  /\ ses'[i].isStarted_ = s.isStarted_
               /\ ses'[i].transform_ = s.transform_
               /\ g'.rel = g.rel
               /\ (askedForOutput(s, a) /\ a.result = "MF_E_TRANSFORM_NEED_MORE_INPUT") =>
                    /\ ~last'.ret
                    /\ ~isValid(last'.out)
                    /\ ses' = ses
                    /\ g' = g
               /\ (askedForOutput(s, a) /\ a.result = "MF_E_TRANSFORM_STREAM_CHANGE") =>
                    /\ ~last'.ret
                    /\ ~isValid(last'.out)
                    /\ last'.calls = <<"ProcessOutput">>
                                       \o (IF a.nv12 THEN <<"SetOutputType">> ELSE <<>>)
                                       \o <<"GetOutputStreamInfo">>
                    /\ ses'[i] = IF a.info.ok
                                   THEN [s EXCEPT !.mftProvidesOutputSamples_ = a.info.provides,
                                                  !.outputBufferSize_ = a.info.cbSize]
                                   ELSE s
                    /\ g' = g
               /\ (askedForOutput(s, a) /\ a.result = "S_OK" /\ s.buf # <<>>) =>
                    /\ last'.ret = a.frameOk
                    /\ isValid(last'.out) = a.frameOk
                    /\ last'.out.presentationTime = Head(s.buf).sampleTime \div 10
                    /\ ses'[i] = [s EXCEPT !.buf = Tail(@)]]_vars

\* a started decoder with a unit inside answered a stream change: it is still
\* started, the unit is still inside, and flag and size hint are the new ones
C29_StreamChangeLeavesStarted ==
    /\ last.op = "pop"
    /\ last.pre = "started"
    /\ io.in.result = "MF_E_TRANSFORM_STREAM_CHANGE"
    /\ io.in.nv12
    /\ io.in.info.ok
    /\ ~io.in.info.provides
    /\ ses[1].isStarted_
    /\ ses[1].buf # <<>>
    /\ ~ses[1].mftProvidesOutputSamples_
    /\ ses[1].outputBufferSize_ = BigOutSize

Limb == 2^16

\* the int64_t with this pattern is negative
negative(p) == p[1] >= 2^15

\* 0 - p in 64 bits
negated(p) ==
    LET d4 == (Limb - 1 - p[4]) + 1
        d3 == (Limb - 1 - p[3]) + d4 \div Limb
        d2 == (Limb - 1 - p[2]) + d3 \div Limb
        d1 == (Limb - 1 - p[1]) + d2 \div Limb
    IN  <<d1 % Limb, d2 % Limb, d3 % Limb, d4 % Limb>>

magnitude(p) == IF negative(p) THEN negated(p) ELSE p

\* m * 10 as five limbs
timesTen(m) ==
    LET a4 == m[4] * 10
        a3 == m[3] * 10 + a4 \div Limb
        a2 == m[2] * 10 + a3 \div Limb
        a1 == m[1] * 10 + a2 \div Limb
    IN  <<a1 \div Limb, a1 % Limb, a2 % Limb, a3 % Limb, a4 % Limb>>

\* m / 10
overTen(m) ==
    LET r1 == m[1] % 10
        r2 == (r1 * Limb + m[2]) % 10
        r3 == (r2 * Limb + m[3]) % 10
    IN  <<m[1] \div 10, (r1 * Limb + m[2]) \div 10, (r2 * Limb + m[3]) \div 10,
          (r3 * Limb + m[4]) \div 10>>

INT64_MAX == <<2^15 - 1, Limb - 1, Limb - 1, Limb - 1>>

INT64_MIN == <<2^15, 0, 0, 0>>

\* int64_t(presentationTime) * 10 in pushSample: the product if an int64_t holds
\* it; a signed overflow is undefined, the outcomes here are the wrapped product
\* and the two ends of the range
sampleTimes(presentationTime) ==
    LET product == timesTen(magnitude(presentationTime))
        low == SubSeq(product, 2, 5)
        wrapped == IF negative(presentationTime) THEN negated(low) ELSE low
        fits == /\ product[1] = 0
                /\ IF negative(presentationTime)
                     THEN low[1] < 2^15 \/ low = INT64_MIN
                     ELSE low[1] < 2^15
    IN  IF fits THEN {wrapped} ELSE {wrapped, INT64_MIN, INT64_MAX}

\* *presentationTime = sampleTime / 10 in popFrame, rounding towards zero
reportedTime(sampleTime) ==
    LET quotient == overTen(magnitude(sampleTime))
    IN  IF negative(sampleTime) THEN negated(quotient) ELSE quotient

\* presentation times around the ends of the ranges
TimeLimbs == {0, 1, 3276, 52428, 52429, 2^15 - 1, 2^15, Limb - 1}

PresentationTimes == {<<a, b, c, d>> : a \in {0, 3276, 2^15 - 1, 2^15, Limb - 1},
                                       b \in {0, 52428}, c \in {0, 52428, Limb - 1},
                                       d \in TimeLimbs}

\* x <= y for two words of the same number of limbs
RECURSIVE atMost(_, _)
atMost(x, y) ==
    IF x = <<>> THEN TRUE
    ELSE IF Head(x) # Head(y) THEN Head(x) < Head(y)
    ELSE atMost(Tail(x), Tail(y))

\* DWORD(size): the low 32 bits of a size_t of 64 bits
DWORD(size) == <<0, 0, size[3], size[4]>>

\* sizes handed to pushSample, none of them 0
SampleSizes == {<<a, b, c, d>> : a \in {0, 1}, b \in {0, 1, Limb - 1}, c \in {0, 1, Limb - 1},
                                 d \in {0, 1, 2, Limb - 1}} \ {<<0, 0, 0, 0>>}

\* the buffer of pushSample: MFCreateMemoryBuffer(DWORD(size)), memcpy of size
\* bytes into it, SetCurrentLength(DWORD(size))
inputBuffer(size) ==
    [capacity |-> DWORD(size), copied |-> size, currentLength |-> DWORD(size)]

\* m * k with one more limb than m, for a small k
RECURSIVE times(_, _, _)
times(m, k, carry) ==
    IF m = <<>> THEN <<carry>>
    ELSE LET a == m[Len(m)] * k + carry
         IN  times(SubSeq(m, 1, Len(m) - 1), k, a \div Limb) \o <<a % Limb>>

\* m / k for a small k, r the remainder carried in
RECURSIVE over(_, _, _)
over(m, k, r) ==
    IF m = <<>> THEN <<>>
    ELSE <<(r * Limb + Head(m)) \div k>> \o over(Tail(m), k, (r * Limb + Head(m)) % k)

\* the product of two limbs as two limbs
limbProduct(x, y) ==
    LET mid == (x \div 256) * (y % 256) + (x % 256) * (y \div 256)
        low == (x % 256) * (y % 256) + (mid % 256) * 256
    IN  <<(x \div 256) * (y \div 256) + mid \div 256 + low \div Limb, low % Limb>>

\* the product of two words of 32 bits as four limbs
product(a, b) ==
    LET p00 == limbProduct(a[2], b[2])
        p01 == limbProduct(a[2], b[1])
        p10 == limbProduct(a[1], b[2])
        p11 == limbProduct(a[1], b[1])
        r3 == p00[1] + p01[2] + p10[2]
        r2 == p01[1] + p10[1] + p11[2] + r3 \div Limb
    IN  <<p11[1] + r2 \div Limb, r2 % Limb, r3 % Limb, p00[2]>>

\* outputWidth * outputHeight * 3u / 2u in unsigned arithmetic of 32 bits
expectedSize(outputWidth, outputHeight) ==
    over(SubSeq(times(product(outputWidth, outputHeight), 3, 0), 4, 5), 2, 0)

\* the bytes of a 4:2:0 frame of these dimensions
frameBytes(outputWidth, outputHeight) ==
    over(times(product(outputWidth, outputHeight), 3, 0), 2, 0)

\* the flat-buffer branch of popFrame on a locked buffer of bufferLength bytes:
\* whether the frame is built, and the bytes the planes are then copied from
flatBufferFrame(outputWidth, outputHeight, bufferLength) ==
    LET built == atMost(expectedSize(outputWidth, outputHeight), bufferLength)
    IN  [expectedSize |-> expectedSize(outputWidth, outputHeight),
         built |-> built,
         bytesRead |-> IF built THEN frameBytes(outputWidth, outputHeight)
                                ELSE <<0, 0, 0, 0, 0>>]

\* output dimensions and buffer lengths, as words of 32 bits
Dimensions == {<<0, 2>>, <<0, 64>>, <<0, 2^15>>, <<0, 43692>>, <<0, Limb - 2>>, <<1, 0>>}

BufferLengths == {<<0, 0>>, <<0, 6>>, <<0, 6143>>, <<0, 6144>>, <<1, 0>>, <<Limb - 1, Limb - 1>>}

\* offset + nalLength > avccSize in the sample path of convertAvccToAnnexB, for
\* a small offset and avccSize and a nalLength of two limbs: with a size_t of 64
\* bits the sum is exact, with one of 32 bits it wraps
lengthRefused(offset, nalLength, avccSize, wide) ==
    LET low == nalLength[2] + offset
        high == nalLength[1] + low \div Limb
    IN  IF wide THEN high > 0 \/ low > avccSize
        ELSE high % Limb > 0 \/ low % Limb > avccSize

\* the indices of data the sample path of convertAvccToAnnexB reads from offset
\* on; a unit that passes the test although it ends behind the buffer is read
\* up to its end, of which avccSize is the first index
RECURSIVE sampleReads(_, _, _, _)
sampleReads(data, avccSize, offset, wide) ==
    IF offset + 4 <= avccSize
      THEN LET nalLength == <<data[offset + 1] * 256 + data[offset + 2],
                              data[offset + 3] * 256 + data[offset + 4]>>
               payload == offset + 4
               length == offset .. payload - 1
           IN  IF nalLength = <<0, 0>> \/ lengthRefused(payload, nalLength, avccSize, wide)
                 THEN length
               ELSE IF lengthRefused(payload, nalLength, avccSize, TRUE)
                 THEN length \cup (payload .. avccSize)
               ELSE length \cup (payload .. payload + nalLength[2] - 1)
                      \cup sampleReads(data, avccSize, payload + nalLength[2], wide)
      ELSE {}

\* the indices of data the loop over the records of one array reads
RECURSIVE recordReads(_, _, _, _, _)
recordReads(data, avccSize, offset, idx, count) ==
    IF idx < count /\ offset + 2 <= avccSize
      THEN LET naluLength == data[offset + 1] * 256 + data[offset + 2]
               payload == offset + 2
           IN  {offset, offset + 1}
                 \cup IF payload + naluLength > avccSize THEN {}
                      ELSE (payload .. payload + naluLength - 1)
                             \cup recordReads(data, avccSize, payload + naluLength, idx + 1, count)
      ELSE {}

\* the indices of data the loop over the arrays of an HEVC record reads
RECURSIVE arrayReads(_, _, _, _, _)
arrayReads(data, avccSize, offset, arrayIdx, numArrays) ==
    IF arrayIdx < numArrays /\ offset + 3 <= avccSize
      THEN LET numNalus == data[offset + 2] * 256 + data[offset + 3]
               nalus == convertRecords(data, avccSize, offset + 3, 0, numNalus, <<>>)
           IN  {offset + 1, offset + 2}
                 \cup recordReads(data, avccSize, offset + 3, 0, numNalus)
                 \cup arrayReads(data, avccSize, nalus.offset, arrayIdx + 1, numArrays)
      ELSE {}

\* the indices of data convertAvccToAnnexB reads
readsOfConversion(b, avccSize, isCodecConfig, mime, wide) ==
    IF b.null \/ avccSize < 4 THEN {}
    ELSE IF ~isCodecConfig THEN sampleReads(b.data, avccSize, 0, wide)
    ELSE IF mime = "video/hevc" \/ mime = "video/h265"
      THEN IF avccSize < 23 THEN {}
           ELSE {22} \cup arrayReads(b.data, avccSize, 23, 0, b.data[23])
    ELSE IF avccSize < 7 THEN {}
    ELSE LET numSPS == b.data[6] % 32
             sps == convertRecords(b.data, avccSize, 6, 0, numSPS, <<>>)
         IN  {5} \cup recordReads(b.data, avccSize, 6, 0, numSPS)
                 \cup IF sps.offset < avccSize
                      THEN {sps.offset}
                             \cup recordReads(b.data, avccSize, sps.offset + 1, 0,
                                              b.data[sps.offset + 1])
                      ELSE {}

\* lengths of units, some of them close to 2^32, and buffers of one and of two
\* units with these lengths
UnitLengths == {<<0, 0, 0, 0>>, <<0, 0, 0, 1>>, <<0, 0, 0, 2>>, <<0, 0, 0, 9>>, <<1, 0, 0, 0>>,
                <<255, 255, 255, 247>>, <<255, 255, 255, 252>>, <<255, 255, 255, 255>>}

LengthBuffers ==
    LET one == {n \o p : n \in UnitLengths, p \in {<<>>, <<7>>, <<7, 7>>}}
    IN  one \cup {x \o y : x, y \in one}

ReadInputs ==
    {[fn |-> "reads", b |-> Buffer(d), size |-> Len(d), isCodecConfig |-> FALSE,
      mime |-> "video/avc", wide |-> w] : d \in LengthBuffers, w \in BOOLEAN}
      \cup {[fn |-> "reads", b |-> in.b, size |-> in.size, isCodecConfig |-> TRUE,
              mime |-> in.mime, wide |-> w] :
               in \in {x \in ConfigInputs : x.size <= 30}, w \in BOOLEAN}

NumInputs ==
    {[fn |-> "time", t |-> t] : t \in PresentationTimes}
      \cup ReadInputs
      \cup {[fn |-> "flat", width |-> w, height |-> h, bufferLength |-> n] :
               w \in Dimensions, h \in Dimensions, n \in BufferLengths}
      \cup {[fn |-> "copy", size |-> size] : size \in SampleSizes}

InitNum ==
    /\ kind = "decoder"
    /\ ses = [i \in {1} |-> NewSession]
    /\ g = NewGlobal
    /\ last = NoCall
    /\ NoThreads
    /\ io \in {[NoConversion EXCEPT !.in = in] : in \in NumInputs}

\* pushSample(data, size, t), the transform hands the sample time on to its
\* output, popFrame(&presentationTime)
RoundTrip ==
    /\ io.in.fn = "time"
    /\ io.out = <<>>
    /\ \E sampleTime \in sampleTimes(io.in.t) :
         io' = [io EXCEPT !.out = <<[sampleTime |-> sampleTime,
                                     reported |-> reportedTime(sampleTime)]>>]
    /\ UNCHANGED <<kind, ses, g, last, threadVars>>

\* pushSample(data, size, t) on a started decoder, as far as the copy into the
\* input buffer; MFCreateMemoryBuffer and Lock succeed
CopySample ==
    /\ io.in.fn = "copy"
    /\ io.out = <<>>
    /\ io' = [io EXCEPT !.out = <<inputBuffer(io.in.size)>>]
    /\ UNCHANGED <<kind, ses, g, last, threadVars>>

\* popFrame on an output whose buffer has no 2D interface
FlatBuffer ==
    /\ io.in.fn = "flat"
    /\ io.out = <<>>
    /\ io' = [io EXCEPT !.out = <<flatBufferFrame(io.in.width, io.in.height,
                                                  io.in.bufferLength)>>]
    /\ UNCHANGED <<kind, ses, g, last, threadVars>>

\* convertAvccToAnnexB(data, size, annexBData, isCodecConfig, mime) in a build
\* with a size_t of 64 bits (wide) or of 32 bits; io.out gets the indices read
ReadInput ==
    /\ io.in.fn = "reads"
    /\ io.out = <<>>
    /\ io' = [io EXCEPT !.out = <<readsOfConversion(io.in.b, io.in.size, io.in.isCodecConfig,
                                                    io.in.mime, io.in.wide)>>]
    /\ UNCHANGED <<kind, ses, g, last, threadVars>>

NextNum ==
    \/ RoundTrip
    \/ ReadInput
    \/ FlatBuffer
    \/ CopySample

SpecNum == InitNum /\ [][NextNum]_vars

\* C31: for every presentation time t of 64 bits handed to pushSample, the
\* sample time is t * 10, and popFrame reports exactly t for an output that
\* carries this sample time.
C31_PresentationTimeRoundTrip ==
    (io.in.fn = "time" /\ io.out # <<>>) =>
      /\ ~negative(io.out[1].reported)
      /\ io.out[1].reported = io.in.t

\* the part of C31 that holds: times up to INT64_MAX / 10 come back unchanged
TimeRoundTripInRange ==
    (io.in.fn = "time" /\ io.out # <<>> /\ timesTen(io.in.t)[1] = 0
       /\ ~negative(SubSeq(timesTen(io.in.t), 2, 5))) =>
      io.out[1].reported = io.in.t

\* C40: pushSample copies exactly size bytes into an input buffer whose
\* capacity, and whose current length, are not less than the number of bytes
\* copied, for every size of the width of size_t.
C40_InputBufferHoldsCopy ==
    (io.in.fn = "copy" /\ io.out # <<>>) =>
      /\ io.out[1].copied = io.in.size
      /\ atMost(io.out[1].copied, io.out[1].capacity)
      /\ atMost(io.out[1].copied, io.out[1].currentLength)

\* the part of C40 that holds: a size below 2^32 is copied into a buffer of
\* exactly that capacity
CopyFitsBelowDwordRange ==
    (io.in.fn = "copy" /\ io.out # <<>> /\ io.in.size[1] = 0 /\ io.in.size[2] = 0) =>
      io.out[1].capacity = io.out[1].copied

\* C35: in the flat-buffer branch of popFrame a frame is built only if the
\* buffer has at least outputWidth * outputHeight * 3 / 2 bytes, the true value,
\* for every pair of dimensions of 32 bits: a shorter buffer gives the invalid
\* frame and is never read past its length.
C35_FlatBufferNeverReadPastLength ==
    (io.in.fn = "flat" /\ io.out # <<>>) =>
      /\ io.out[1].built =>
           atMost(frameBytes(io.in.width, io.in.height), <<0, 0, 0>> \o io.in.bufferLength)
      /\ atMost(io.out[1].bytesRead, <<0, 0, 0>> \o io.in.bufferLength)

\* the part of C35 that holds: while width * height * 3 stays below 2^32 a
\* frame is built exactly from the buffers that hold it
FlatBufferCheckedInRange ==
    (io.in.fn = "flat" /\ io.out # <<>>
       /\ SubSeq(times(product(io.in.width, io.in.height), 3, 0), 1, 3) = <<0, 0, 0>>) =>
      (io.out[1].built <=>
         atMost(frameBytes(io.in.width, io.in.height), <<0, 0, 0>> \o io.in.bufferLength))

\* C38: convertAvccToAnnexB never reads a byte of the input at an index of
\* avccSize or more, in the sample path, the HEVC configuration path and the
\* AVC configuration path, for every content and size of the buffer and with
\* the offsets computed at the width of the platform's size_t.
C38_ConversionReadsWithinBuffer ==
    (io.in.fn = "reads" /\ io.out # <<>>) =>
      \A index \in io.out[1] : index < io.in.size

\* the part of C38 that holds: the configuration paths, and the sample path
\* with a size_t of 64 bits, read inside the buffer only
ReadsWithinBufferWideOrConfig ==
    (io.in.fn = "reads" /\ io.out # <<>> /\ (io.in.wide \/ io.in.isCodecConfig)) =>
      \A index \in io.out[1] : index < io.in.size

(***************************************************************************)
(* The loop of VideoEncoder::drainOutputSamples, one iteration a step.     *)
(* While a call of popSample, pushFrame or stop is in the loop, io.convert *)
(* holds the running call: the method, what follows the loop (phase), the  *)
(* call's state c, and the answers of the last iteration (a).  When the    *)
(* call has returned, io.out holds the answers that ended its loop.        *)
(***************************************************************************)
\* GetBlob may also report a size other than the one GetBlobSize reported, 0 too
WideBlobResults == BlobResults \cup {[ok |-> TRUE, size |-> 0]}

\* what the platform and the transform answer in one iteration of the loop: the
\* creation of the caller-provided sample and buffer, the result of
\* ProcessOutput, after a stream change the stream info, after S_OK whether there
\* is a sample, what reading the sequence header gives and whether the sample's
\* buffer can be read.  After an accepted drain command (drained) the transform
\* hands out every buffered unit before it reports need-more-input
DrainAnswers(s, drained) ==
    LET needInput == [create |-> "ok", result |-> "MF_E_TRANSFORM_NEED_MORE_INPUT",
                      info |-> [ok |-> FALSE, provides |-> FALSE, cbSize |-> 0],
                      sample |-> FALSE, blob |-> NoBlob, payload |-> FALSE]
    IN  {[needInput EXCEPT !.create = x] :
           x \in IF s.mftProvidesOutputSamples_ THEN {}
                  ELSE {"MFCreateSample", "MFCreateMemoryBuffer"}}
        \cup (IF drained /\ s.buf # <<>> THEN {} ELSE {needInput})
        \cup {[needInput EXCEPT !.result = r] : r \in {"E_FAIL", "S_OK"}}
        \cup {[needInput EXCEPT !.result = "MF_E_TRANSFORM_STREAM_CHANGE", !.info = info] :
                info \in StreamInfos}
        \cup (IF s.buf # <<>>
               THEN {[needInput EXCEPT !.result = "S_OK", !.sample = TRUE, !.blob = blob,
                                       !.payload = payload] :
                       blob \in IF Head(s.buf).key /\ ~s.codecConfigEmitted_
                                  THEN WideBlobResults ELSE {NoBlob},
                       payload \in BOOLEAN}
               ELSE {})

\* a loop that gives up what it has queued when ProcessOutput fails
drainIteration_dropping(c, a) ==
    IF ~c.s.mftProvidesOutputSamples_ /\ a.create # "ok" THEN [c |-> c, again |-> FALSE]
    ELSE IF a.result = "MF_E_TRANSFORM_NEED_MORE_INPUT" THEN [c |-> c, again |-> FALSE]
    ELSE IF a.result = "MF_E_TRANSFORM_STREAM_CHANGE"
      THEN [c |-> [c EXCEPT !.s = probeOutputStreamInfo(@, a.info)], again |-> TRUE]
    ELSE IF a.result # "S_OK"
      THEN [c |-> [c EXCEPT !.s.encodedSamples_ = <<>>], again |-> FALSE]
    ELSE IF ~a.sample THEN [c |-> c, again |-> TRUE]
    ELSE [c |-> drainedSample(c, a.blob, a.payload), again |-> TRUE]

\* one iteration of the loop with the answers a: the call's state after it, and
\* whether the loop goes on (continue, or the end of the body) or ends (break)
drainIteration(c, a) ==
    IF ~c.s.mftProvidesOutputSamples_ /\ a.create # "ok" THEN [c |-> c, again |-> FALSE]
    ELSE IF a.result = "MF_E_TRANSFORM_NEED_MORE_INPUT" THEN [c |-> c, again |-> FALSE]
    ELSE IF a.result = "MF_E_TRANSFORM_STREAM_CHANGE"
      THEN [c |-> [c EXCEPT !.s = probeOutputStreamInfo(@, a.info)], again |-> TRUE]
    ELSE IF a.result # "S_OK" THEN [c |-> c, again |-> FALSE]
    ELSE IF ~a.sample THEN [c |-> c, again |-> TRUE]
    ELSE [c |-> drainedSample(c, a.blob, a.payload), again |-> TRUE]

\* a call in the loop
Running(op, phase, c, drained, sampleTime, key) ==
    [op |-> op, phase |-> phase, c |-> requested(c, "drainOutputSamples"), drained |-> drained,
     sampleTime |-> sampleTime, key |-> key, a |-> <<>>]

Idle == io.convert = <<>>

Enters(run) ==
    /\ io' = [NoConversion EXCEPT !.convert = <<run>>]
    /\ UNCHANGED <<kind, ses, g, last, threadVars>>

\* the call on session i returns with c; a are the answers that ended its loop
Leaves(op, i, c, a) ==
    /\ ses' = [ses EXCEPT ![i] = c.s]
    /\ g' = c.g
    /\ last' = [op |-> op, sid |-> i, pre |-> stateOf(ses[i]), ret |-> c.ret, out |-> c.out,
                calls |-> c.calls, inputs |-> c.inputs, enq |-> c.enq]
    /\ io' = [NoConversion EXCEPT !.out = a]
    /\ UNCHANGED <<kind, threadVars>>

\* popSample up to the loop
BeginPop(i) ==
    /\ Encoder /\ Idle /\ ses[i].alive
    /\ IF ses[i].encodedSamples_ # <<>> \/ ~transformValid(ses[i]) \/ ~ses[i].isStarted_
         THEN \E c \in VideoEncoder_popSample(Call(ses[i], g)) : Leaves("pop", i, c, <<>>)
         ELSE Enters(Running("pop", "pop", Call(ses[i], g), FALSE, 0, FALSE))

\* pushFrame of a frame of the negotiated dimensions up to the loop
BeginPush(i, bound) ==
    /\ Encoder /\ Idle /\ ses[i].alive
    /\ transformValid(ses[i]) /\ ses[i].isStarted_
    /\ \E first \in InputResults(g, bound), key \in BOOLEAN :
         LET sampleTime == nextPresentationTime * 10
             c1 == ProcessInput(Call(ses[i], g), sampleTime, first, key)
         IN  IF first = "MF_E_NOTACCEPTING"
               THEN Enters(Running("push", "retry", c1, FALSE, sampleTime, key))
             ELSE IF first # "S_OK" THEN Leaves("push", i, Return(c1, FALSE), <<>>)
             ELSE Enters(Running("push", "accepted", c1, FALSE, sampleTime, key))

\* stop of a started session up to the loop
BeginStop(i) ==
    /\ Encoder /\ Idle /\ ses[i].alive
    /\ transformValid(ses[i]) /\ ses[i].isStarted_
    /\ \E e \in StopAnswers :
         Enters(Running("stop", "stop",
                        ProcessMessage(Call(ses[i], g), "MFT_MESSAGE_COMMAND_DRAIN", e.drain),
                        e.drain, 0, FALSE))

\* one iteration of the loop and, when it ends the loop, the rest of the call
DrainStep(i, bound) ==
    /\ ~Idle
    /\ LET run == io.convert[1]
       IN  \E a \in DrainAnswers(run.c.s, run.drained) :
             LET r == drainIteration(run.c, a)
                 queue == r.c.s.encodedSamples_
             IN  IF r.again
                   THEN /\ io' = [io EXCEPT !.convert[1].c = r.c, !.convert[1].a = <<a>>]
                        /\ UNCHANGED <<kind, ses, g, last, threadVars>>
                 ELSE IF run.phase = "pop"
                   THEN Leaves("pop", i,
                               IF queue # <<>>
                                 THEN ReturnOut([r.c EXCEPT !.s.encodedSamples_ = Tail(@)],
                                                Head(queue))
                                 ELSE ReturnOut(r.c, InvalidSample), <<a>>)
                 ELSE IF run.phase = "accepted"
                   THEN Leaves("push", i, Return(r.c, TRUE), <<a>>)
                 ELSE IF run.phase = "retry"
                   THEN \E second \in InputResults(r.c.g, bound) :
                          LET c3 == ProcessInput(r.c, run.sampleTime, second, run.key)
                          IN  IF second # "S_OK"
                                THEN Leaves("push", i, Return(c3, FALSE), <<a>>)
                                ELSE Enters(Running("push", "accepted", c3, FALSE,
                                                    run.sampleTime, run.key))
                 ELSE Leaves("stop", i,
                             Return([ProcessMessage(ProcessMessage(r.c,
                                         "MFT_MESSAGE_NOTIFY_END_OF_STREAM", TRUE),
                                         "MFT_MESSAGE_NOTIFY_END_STREAMING", TRUE)
                                       EXCEPT !.s.isStarted_ = FALSE], TRUE), <<a>>)

NextDrain ==
    \E i \in DOMAIN ses :
      \/ Idle /\ Initialize(i, MaxStartups)
      \/ Idle /\ Start(i)
      \/ Idle /\ Release(i)
      \/ BeginPop(i)
      \/ BeginPush(i, MaxUsagePush)
      \/ BeginStop(i)
      \/ DrainStep(i, MaxUsagePush)

\* an encoder
InitDrain == Init /\ Encoder

SpecDrain == InitDrain /\ [][NextDrain]_vars

\* a call that is in the loop takes its next iteration
SpecDrainFair ==
    InitDrain /\ [][NextDrain]_vars /\ WF_vars(\E i \in DOMAIN ses : DrainStep(i, MaxUsagePush))

\* a session of either kind: the encoder as above, the decoder with the answers
\* its popFrame got kept
NextInfo ==
    \/ NextDrain
    \/ \E i \in DOMAIN ses :
         \/ ~Encoder /\ Stop(i)
         \/ ~Encoder /\ Push(i, MaxUsagePush)
         \/ ~Encoder /\ PopWith(i)
         \/ Drain(i)

SpecInfo == Init /\ [][NextInfo]_vars

\* the samples a session holds: its queue, and while one of its calls is in the
\* loop, the queue of that call
queueOf(i) == IF Idle THEN ses[i].encodedSamples_ ELSE io.convert[1].c.s.encodedSamples_

\* C37: every sample stored in the encoder's queue is valid (its data is not
\* empty), whatever sizes the transform reports for the sequence header blob and
\* for the payload buffer.  Violated: the size GetBlob reports is not tested.
C37_QueuedSamplesAreValid ==
    \A i \in DOMAIN ses : \A k \in DOMAIN queueOf(i) : queueOf(i)[k].size # 0

\* the part of C37 that holds: every payload sample in the queue is valid
QueuedPayloadsAreValid ==
    \A i \in DOMAIN ses : \A k \in DOMAIN queueOf(i) :
      queueOf(i)[k].bufferFlags # BUFFER_FLAG_CODEC_CONFIG => queueOf(i)[k].size # 0

\* the samples the step appends to the queue of session i
appended(i) == SubSeq(queueOf(i)', Len(queueOf(i)) + 1, Len(queueOf(i)'))

\* the step is an iteration of the loop that appends to the queue; the loop goes on
Appends(i) == ~Idle /\ ~Idle' /\ Len(queueOf(i)') > Len(queueOf(i))

\* C36 as the spec states it: every codec-configuration sample in the queue is
\* immediately followed by a key-frame payload sample with the same presentation
\* time, also when converting or locking the output buffer of its unit fails.
\* Violated: the configuration sample is queued before the buffer is read.
C36_ConfigFollowedByKeyFrame ==
    \A i \in DOMAIN ses : \A k \in DOMAIN queueOf(i) :
      queueOf(i)[k].bufferFlags = BUFFER_FLAG_CODEC_CONFIG
        => /\ k < Len(queueOf(i))
           /\ queueOf(i)[k + 1].bufferFlags = BUFFER_FLAG_KEY_FRAME
           /\ queueOf(i)[k + 1].presentationTime = queueOf(i)[k].presentationTime

\* C36, amended: an iteration of the drain loop that queues a codec-configuration
\* sample queues directly behind it the key-frame payload sample of the same unit,
\* with the same presentation time, if the unit's buffer could be converted and
\* locked, and queues the configuration sample alone if not; a payload sample
\* carries the key-frame flag iff the transform marked its unit as a clean point.
C36_ConfigFollowedByKeyFrameIfBufferRead ==
    [][\A i \in DOMAIN ses :
         Appends(i) =>
           LET a == io'.convert[1].a[1]
               u == Head(io.convert[1].c.s.buf)
               new == appended(i)
           IN  /\ a.sample
               /\ \A k \in DOMAIN new :
                    IF new[k].bufferFlags = BUFFER_FLAG_CODEC_CONFIG
                      THEN /\ u.key
                           /\ new[k].presentationTime = u.sampleTime \div 10
                           /\ IF a.payload
                                THEN /\ k + 1 = Len(new)
                                     /\ new[k + 1].bufferFlags = BUFFER_FLAG_KEY_FRAME
                                     /\ new[k + 1].presentationTime = new[k].presentationTime
                                ELSE k = Len(new)
                      ELSE /\ a.payload
                           /\ k = Len(new)
                           /\ new[k].presentationTime = u.sampleTime \div 10
                           /\ (new[k].bufferFlags = BUFFER_FLAG_KEY_FRAME) <=> u.key
                           /\ new[k].bufferFlags \in {BUFFER_FLAG_KEY_FRAME, BUFFER_FLAG_NONE}]_vars

\* a call is in the loop, the last iteration queued a codec-configuration sample
\* and could not read the buffer of its unit: the sample is the last of the queue
C36_ConfigQueuedAlone ==
    /\ ~Idle
    /\ io.convert[1].a # <<>>
    /\ io.convert[1].a[1].sample /\ ~io.convert[1].a[1].payload /\ io.convert[1].a[1].blob.ok
    /\ queueOf(1) # <<>>
    /\ queueOf(1)[Len(queueOf(1))].bufferFlags = BUFFER_FLAG_CODEC_CONFIG

\* the step ends the loop of a call because ProcessOutput failed with an error that
\* is neither need-more-input nor a stream change
EndsOnError == ~Idle /\ io'.convert = <<>> /\ io'.out # <<>> /\ io'.out[1].result = "E_FAIL"

\* C32: an error of ProcessOutput other than need-more-input and stream change ends
\* the drain loop without failing the caller: pushFrame, its frame accepted, returns
\* true and keeps the queue; popSample returns the head of the queue as it was when
\* the error came, or the invalid sample if the queue was empty, and keeps the rest;
\* the session stays started.
C32_OutputErrorEndsDrainOnly ==
    [][EndsOnError =>
         LET run == io.convert[1]
             queue == run.c.s.encodedSamples_
             s == ses'[last'.sid]
         IN  /\ run.phase = "accepted"
                  => /\ last'.op = "push" /\ last'.ret = TRUE
                     /\ s.encodedSamples_ = queue
                     /\ s.isStarted_
             /\ run.phase = "pop"
                  => /\ last'.op = "pop"
                     /\ last'.out = (IF queue # <<>> THEN Head(queue) ELSE InvalidSample)
                     /\ s.encodedSamples_ = (IF queue # <<>> THEN Tail(queue) ELSE <<>>)
                     /\ s.isStarted_]_vars

\* pushFrame has returned true after its loop queued a sample and then ended on an
\* error of ProcessOutput; the sample is in the queue and the session is started
C32_PushedDespiteOutputError ==
    /\ Encoder /\ Idle
    /\ last.op = "push" /\ last.ret = TRUE /\ last.enq # <<>>
    /\ io.out # <<>> /\ io.out[1].result = "E_FAIL"
    /\ ses[last.sid].encodedSamples_ # <<>>
    /\ ses[last.sid].isStarted_

\* C33: every call of popSample, pushFrame and stop on an encoder returns: the
\* drain loop ends after finitely many requests for output, whatever the transform
\* answers, answers of stream-changed and of success without a sample included.
\* Violated: the loop continues after each of these answers without a bound.
C33_EveryEncoderCallReturns == (~Idle) ~> Idle

\* the session as its member functions see it: while one of its calls is in the
\* drain loop, the state of that call
cur(i) == IF Idle THEN ses[i] ELSE io.convert[1].c.s

\* the two values the session reads from GetOutputStreamInfo
outputInfoOf(i) == <<cur(i).mftProvidesOutputSamples_, cur(i).outputBufferSize_>>

MaxAssignStartups == 2

MaxAssignPush == 1

NextAssign ==
    \E i \in DOMAIN ses :
      \/ Initialize(i, MaxAssignStartups)
      \/ Start(i)
      \/ Push(i, MaxAssignPush)
      \/ Release(i)
      \* between two sessions: the source is the session that is not the target
      \/ \E j \in DOMAIN ses \ {i} : MoveAssign(i, j)

SpecAssign == InitMove /\ [][NextAssign]_vars

\* the attributes a move assignment hands over (the queue and the config-emitted
\* flag are in use in the encoder only)
attributesOf(s) ==
    <<s.transform_, s.isStarted_, s.width_, s.height_, s.mftProvidesOutputSamples_,
      s.outputBufferSize_, s.encodedSamples_, s.codecConfigEmitted_>>

\* MFStartup calls not yet answered by an MFShutdown, less those a session still
\* remembers in mfStarted_ and answers in its release
unansweredStartups ==
    g.startups - g.shutdowns - Cardinality({i \in DOMAIN ses : ses[i].mfStarted_})

====
